---- MODULE Spec2Model ----
(***************************************************************************)
(* A model of the JSONA core (dalisoft/jsona): the error-recovering        *)
(* recursive-descent parser of crates/jsona/src/parser.rs, run as a        *)
(* pushdown machine over the tokens its lexer yields, and the object       *)
(* entries of crates/jsona/src/dom/node.rs.                                *)
(*                                                                         *)
(* The source text is revealed token by token, as the lexer scans it:      *)
(* `src` is the prefix scanned so far.  A token is [kind, text], its text  *)
(* a sequence of characters.                                               *)
(***************************************************************************)
EXTENDS Integers, Sequences, FiniteSets, TLC

VARIABLES
    src,            \* the tokens the lexer has scanned so far, in order
    lexer,          \* Parser.lexer: span and slice of the last token, end reached
    current_token,  \* Parser.current_token: Option<SyntaxKind>
    builder,        \* Parser.builder: the green-tree builder (parents, children)
    errors,         \* Parser.errors: Vec<Error>
    last_dropped,   \* history: the error add_error dropped last
    stack,          \* the call stack of the parser's functions
    ret,            \* the ParserResult the last returned function gave
    status,         \* "running", "returned" or "panicked"
    green_node,     \* Parse.green_node once parse() has returned
    entries,        \* ObjectInner.entries: Entries {lookup, all}
    obj_errors,     \* ObjectInner.errors: the object's deferred-error list
    annos,          \* an Entries container filled by Entries::add / from_iter
    dom_nodes,      \* scalar DOM nodes and keys: syntax, deferred errors, value cell
    json,           \* the JSON value handed to Node::deserialize
    de,             \* what Node::deserialize returned for it
    ser,            \* what Node::serialize gave for the deserialized node, or for doc
    doc,            \* a Node of a parsed document handed to Node::serialize
    lint            \* the lint command: lint_files' loop and lint_file's stages

parser_vars == <<src, lexer, current_token, builder, errors, last_dropped,
                 stack, ret, status, green_node>>
entries_vars == <<entries, obj_errors, annos>>
node_vars == <<dom_nodes>>
serde_vars == <<json, de, ser, doc>>
lint_vars == <<lint>>
dom_vars == <<entries, obj_errors, annos, dom_nodes, json, de, ser, doc, lint>>
vars == <<src, lexer, current_token, builder, errors, last_dropped,
          stack, ret, status, green_node, entries, obj_errors, annos,
          dom_nodes, json, de, ser, doc, lint>>

(***************************************************************************)
(* Bounds.                                                                 *)
(***************************************************************************)
\* every token sequence of at most this many tokens is an input
MaxTokens == 4
\* iterations of a container loop without progress of the lexer that are followed
MaxSpin == 2
\* entries added to one object
MaxEntries == 3
\* entries added to one annotation container
MaxAnnos == 2
\* DOM nodes that are made and used side by side
MaxNodes == 1
\* calls of value() and validate_node() made on one node
MaxCalls == 3
\* elements of a JSON array, entries of a JSON object
MaxItems == 2
\* digits and underscores that follow the first digit or the radix prefix of a number
MaxDigits == 3
\* files of a lint command
MaxFiles == 3
\* syntax errors parse reports for a file
MaxSyntaxErrors == 2

None == "None"
Ok == "Ok"
Err == "Err"

(***************************************************************************)
(* Text.                                                                   *)
(***************************************************************************)
RECURSIVE Concat(_)
Concat(ss) == IF ss = <<>> THEN <<>> ELSE Head(ss) \o Concat(Tail(ss))

IsPrefix(s, t) == Len(s) <= Len(t) /\ SubSeq(t, 1, Len(s)) = s

starts_with(s, p) == IsPrefix(p, s)

ends_with(s, p) == Len(p) <= Len(s) /\ SubSeq(s, Len(s) - Len(p) + 1, Len(s)) = p

contains(s, c) == \E i \in 1..Len(s) : s[i] = c

\* str::split(c).next(): the text before the first c (all of it when there is none)
split_first(s, c) ==
    IF contains(s, c)
    THEN SubSeq(s, 1, (CHOOSE i \in 1..Len(s) : s[i] = c /\ \A j \in 1..(i - 1) : s[j] # c) - 1)
    ELSE s

\* a character's length in UTF-8
ByteLen(c) == IF c = "U+00E9" THEN 2 ELSE 1

RECURSIVE ByteLenOf(_)
ByteLenOf(s) == IF s = <<>> THEN 0 ELSE ByteLen(Head(s)) + ByteLenOf(Tail(s))

\* U+0001 and U+007F stand for the control characters other than \t, \n, \r
SOH == "\\x01"
DEL == "\\x7f"

\* char::is_control
is_control(c) == c \in {SOH, DEL, "\t", "\n", "\r"}

\* char::is_digit(radix)
DigitValue(c) ==
    CASE c = "0" -> 0 [] c = "1" -> 1 [] c = "2" -> 2 [] c = "3" -> 3
      [] c = "4" -> 4 [] c = "5" -> 5 [] c = "6" -> 6 [] c = "7" -> 7
      [] c = "8" -> 8 [] c = "9" -> 9
      [] c \in {"a", "A"} -> 10 [] c \in {"b", "B"} -> 11 [] c \in {"c", "C"} -> 12
      [] c \in {"d", "D"} -> 13 [] c \in {"e", "E"} -> 14 [] c \in {"f", "F"} -> 15
      [] OTHER -> 99

is_digit(c, radix) == DigitValue(c) < radix

(***************************************************************************)
(* parser.rs: validate_underscore_integer and allowed_chars.               *)
(***************************************************************************)
\* prev_char of the loop at index i: 0 as char before the first character
PrevChar(s, i) == IF i = 1 THEN "\\x00" ELSE s[i - 1]

\* the loop without its second test
validate_underscore_before(s, radix) ==
    /\ ~(starts_with(s, <<"_">>) \/ ends_with(s, <<"_">>))
    /\ \A i \in 1..Len(s) :
          ~(s[i] = "_" /\ ~is_digit(PrevChar(s, i), radix))

validate_underscore_integer(s, radix) ==
    /\ ~(starts_with(s, <<"_">>) \/ ends_with(s, <<"_">>))
    /\ \A i \in 1..Len(s) :
          /\ ~(s[i] = "_" /\ ~is_digit(PrevChar(s, i), radix))
          /\ ~(~is_digit(s[i], radix) /\ PrevChar(s, i) = "_")

\* the indices (from 0, counted in characters) of the characters of s in bad
ErrIndices(s, bad) ==
    SelectSeq([i \in 1..Len(s) |-> i - 1], LAMBDA i : s[i + 1] \in bad)

\* '\u{0000}'..='\u{0008}', '\u{000A}'..='\u{001F}' and '\u{007F}'
C0OrDel == {SOH, "\n", "\r", DEL}

allowed_chars_comment(s, multiline) ==
    IF multiline
    THEN ErrIndices(s, {c \in {SOH, DEL, "\t", "\n", "\r"} :
                            c # "\t" /\ c # "\n" /\ c # "\r" /\ is_control(c)})
    ELSE ErrIndices(s, {c \in {SOH, DEL, "\t", "\n", "\r"} : c # "\t" /\ is_control(c)})

allowed_chars_string(s) ==
    ErrIndices(s, {c \in C0OrDel : c # "\t"})

allowed_chars_backtick_string(s) ==
    ErrIndices(s, {c \in C0OrDel : c # "\t" /\ c # "\n" /\ c # "\r"})

\* util::escape::check_escape: the indices of the backslashes that start no
\* valid JSON escape (\" \\ \/ \b \f \n \r \t \uXXXX)
RECURSIVE EscapeErrs(_, _)
EscapeErrs(s, i) ==
    IF i > Len(s) THEN <<>>
    ELSE IF s[i] # "\\" THEN EscapeErrs(s, i + 1)
    ELSE IF i < Len(s) /\ s[i + 1] \in {"\"", "\\", "/", "b", "f", "n", "r", "t"}
         THEN EscapeErrs(s, i + 2)
    ELSE IF /\ i + 5 <= Len(s)
            /\ s[i + 1] = "u"
            /\ \A k \in 2..5 : is_digit(s[i + k], 16)
         THEN EscapeErrs(s, i + 6)
    ELSE <<i - 1>> \o EscapeErrs(s, i + 2)

check_escape(s) == EscapeErrs(s, 1)

(***************************************************************************)
(* Tokens.  The lexer (syntax.rs, a Logos lexer) is not part of the        *)
(* sources at hand: the token classes below follow section 4.1 of the      *)
(* specification and the slices parser.rs itself tests for.                *)
(***************************************************************************)
Tok(kind, text) == [kind |-> kind, text |-> text]

\* the characters '`', '\r' and '\n'
BACKTICK == "U+0060"
CR == "\\r"
LF == "\\n"

EOF == Tok("EOF", <<>>)

BRACE_START == Tok("BRACE_START", <<"{">>)
BRACE_END == Tok("BRACE_END", <<"}">>)
BRACKET_START == Tok("BRACKET_START", <<"[">>)
BRACKET_END == Tok("BRACKET_END", <<"]">>)
PARENTHESES_START == Tok("PARENTHESES_START", <<"(">>)
PARENTHESES_END == Tok("PARENTHESES_END", <<")">>)
COLON == Tok("COLON", <<":">>)
COMMA == Tok("COMMA", <<",">>)
AT == Tok("AT", <<"@">>)
\* 1 and +1
INTEGER_1 == Tok("INTEGER", <<"1">>)
INTEGER_PLUS_1 == Tok("INTEGER", <<"+", "1">>)
\* a double-quoted string that holds the control character U+0001
STRING_SOH == Tok("DOUBLE_QUOTE", <<"\"", SOH, "\"">>)
\* a byte no token starts with
ERROR_TOKEN == Tok("ERROR", <<"$">>)
WHITESPACE == Tok("WHITESPACE", <<" ">>)

\* the tokens next_token hands to the parser
Significant ==
    {BRACE_START, BRACE_END, BRACKET_START, BRACKET_END, PARENTHESES_START,
     PARENTHESES_END, COLON, COMMA, AT, INTEGER_1, INTEGER_PLUS_1, STRING_SOH}

\* the tokens next_token emits itself and skips
Skipped == {ERROR_TOKEN, WHITESPACE}

WordKinds == {"INTEGER", "INTEGER_BIN", "INTEGER_OCT", "INTEGER_HEX", "FLOAT",
              "IDENT", "NULL", "BOOL"}

WordChar(c) == is_digit(c, 16) \/ c = "_" \/ c \in {"a", "l", "n", "u", "t", "r", "x", "o"}

\* whether the lexer can yield b right after a: two numbers or words with nothing
\* between them are one token, and so are two runs of blanks
Adjacent(a, b) ==
    /\ ~(a.kind \in WordKinds /\ b.kind \in WordKinds /\ WordChar(b.text[1]))
    /\ ~(a.kind = "WHITESPACE" /\ b.kind = "WHITESPACE")

Lexable(s) == \A i \in 1..(Len(s) - 1) : Adjacent(s[i], s[i + 1])

\* the kinds of the tokens next_token emits itself and skips
SkippedKinds == {"WHITESPACE", "NEWLINE", "COMMENT_LINE", "COMMENT_BLOCK", "ERROR"}

NEWLINE == Tok("NEWLINE", <<LF>>)
\* the comments "//a" and "/*a*/"
COMMENT_LINE == Tok("COMMENT_LINE", <<"/", "/", "a">>)
COMMENT_BLOCK == Tok("COMMENT_BLOCK", <<"/", "*", "a", "*", "/">>)
IDENT_A == Tok("IDENT", <<"a">>)
IDENT_B == Tok("IDENT", <<"b">>)
INTEGER_2 == Tok("INTEGER", <<"2">>)
INTEGER_3 == Tok("INTEGER", <<"3">>)
BOOL_TRUE == Tok("BOOL", <<"t", "r", "u", "e">>)
NULL_TOKEN == Tok("NULL", <<"n", "u", "l", "l">>)
STRING_A == Tok("DOUBLE_QUOTE", <<"\"", "a", "\"">>)
SINGLE_A == Tok("SINGLE_QUOTE", <<"'", "a", "'">>)
BACKTICK_A == Tok("BACKTICK_QUOTE", <<BACKTICK, "a", BACKTICK>>)

\* the strings of at most n characters of the set that follow the string s
RECURSIVE Texts(_, _, _)
Texts(s, chars, n) ==
    IF n <= 0 THEN {s}
    ELSE {s} \cup UNION {Texts(Append(s, c), chars, n - 1) : c \in chars}

\* decimal integers and floats, zero-padded and not
ZeroTokens ==
    {Tok("INTEGER", t) : t \in
        { <<"0">>, <<"+", "0">>, <<"-", "0">>, <<"0", "1">>, <<"-", "0", "1">>,
          <<"+", "0", "1">>, <<"0", "0">>, <<"1", "0">>, <<"0", "1", "_">> }}
    \cup {Tok("FLOAT", t) : t \in
        { <<"0", ".", "5">>, <<"0", "0", ".", "5">>, <<"0", "e", "1">>,
          <<"0", "1", "e", "1">>, <<"-", "0", ".", "5">>, <<"1", ".", "5">>,
          <<"-", "0", "1", ".", "5">>, <<"+", "0", ".", "5", "e", "1">>,
          <<"1", "0", ".", "0", "5">> }}

\* numbers with underscores, in every radix
UnderscoreTokens ==
    {Tok("INTEGER", t) : t \in Texts(<<"1">>, {"1", "_"}, MaxDigits)}
    \cup {Tok("INTEGER_HEX", <<"0", "x">> \o t) : t \in Texts(<<>>, {"f", "_"}, MaxDigits) \ {<<>>}}
    \cup {Tok("INTEGER_BIN", <<"0", "b">> \o t) : t \in Texts(<<>>, {"1", "_"}, MaxDigits) \ {<<>>}}
    \cup {Tok("INTEGER_OCT", <<"0", "o">> \o t) : t \in Texts(<<>>, {"7", "_"}, MaxDigits) \ {<<>>}}
    \cup {Tok("FLOAT", t) : t \in
        { <<"1", "_", "0", ".", "5">>, <<"1", "_", ".", "5">>, <<"1", ".", "_", "5">>,
          <<"1", ".", "5", "_", "0">>, <<"1", "e", "1", "_">> }}

\* the tokens met in key position
KeyTokens ==
    { IDENT_A, NULL_TOKEN, BOOL_TRUE, INTEGER_1, Tok("INTEGER", <<"-", "1">>),
      INTEGER_PLUS_1, Tok("INTEGER_HEX", <<"0", "x", "f">>),
      Tok("INTEGER_BIN", <<"0", "b", "1">>), Tok("INTEGER_OCT", <<"0", "o", "7">>),
      Tok("FLOAT", <<"1", ".", "5">>), Tok("FLOAT", <<"0", ".", "5">>),
      Tok("FLOAT", <<"+", "1", ".", "5">>), Tok("FLOAT", <<"-", "1", ".", "5">>),
      STRING_A, SINGLE_A, BACKTICK_A, BRACKET_START }

\* a number alone
ValueSeeds == {<<t>> : t \in ZeroTokens \cup UnderscoreTokens}

\* {k:1} for a token k
KeyDoc(k) == <<BRACE_START, k, COLON, INTEGER_1, BRACE_END>>

KeySeeds == {KeyDoc(k) : k \in KeyTokens}

\* [1 @a, 2]
ARRAY_ANNOS_COMMA ==
    <<BRACKET_START, INTEGER_1, WHITESPACE, AT, IDENT_A, COMMA, WHITESPACE,
      INTEGER_2, BRACKET_END>>
\* {a: 1 @a, b: 2}
OBJECT_ANNOS_COMMA ==
    <<BRACE_START, IDENT_A, COLON, WHITESPACE, INTEGER_1, WHITESPACE, AT, IDENT_A,
      COMMA, WHITESPACE, IDENT_B, COLON, WHITESPACE, INTEGER_2, BRACE_END>>
\* [@a 1 @a(2), 2 @b,]
ARRAY_FULL ==
    <<BRACKET_START, AT, IDENT_A, WHITESPACE, INTEGER_1, WHITESPACE, AT, IDENT_A,
      PARENTHESES_START, INTEGER_2, PARENTHESES_END, COMMA, WHITESPACE, INTEGER_2,
      WHITESPACE, AT, IDENT_B, COMMA, BRACKET_END>>
\* [1, 2,] and {a: 1, b: 2,}
ARRAY_TRAILING_COMMA ==
    <<BRACKET_START, INTEGER_1, COMMA, WHITESPACE, INTEGER_2, COMMA, BRACKET_END>>
OBJECT_TRAILING_COMMA ==
    <<BRACE_START, IDENT_A, COLON, WHITESPACE, INTEGER_1, COMMA, WHITESPACE,
      IDENT_B, COLON, WHITESPACE, INTEGER_2, COMMA, BRACE_END>>
\* [1 @a] and [1, 2 @a]
ARRAY_LAST_ANNOS ==
    <<BRACKET_START, INTEGER_1, WHITESPACE, AT, IDENT_A, BRACKET_END>>
ARRAY_SECOND_ANNOS ==
    <<BRACKET_START, INTEGER_1, COMMA, WHITESPACE, INTEGER_2, WHITESPACE, AT, IDENT_A,
      BRACKET_END>>

\* [1 2 3], {a: 1 b: 2}, [1 @a 2] and [[1] 2]: commas are missing
ARRAY_NO_COMMAS ==
    <<BRACKET_START, INTEGER_1, WHITESPACE, INTEGER_2, WHITESPACE, INTEGER_3, BRACKET_END>>
OBJECT_NO_COMMA ==
    <<BRACE_START, IDENT_A, COLON, WHITESPACE, INTEGER_1, WHITESPACE, IDENT_B, COLON,
      WHITESPACE, INTEGER_2, BRACE_END>>
ARRAY_ANNOS_NO_COMMA ==
    <<BRACKET_START, INTEGER_1, WHITESPACE, AT, IDENT_A, WHITESPACE, INTEGER_2, BRACKET_END>>
ARRAY_NESTED_NO_COMMA ==
    <<BRACKET_START, BRACKET_START, INTEGER_1, BRACKET_END, WHITESPACE, INTEGER_2,
      BRACKET_END>>

\* [{1}{}]
ARRAY_OBJECTS_NO_COMMA ==
    <<BRACKET_START, BRACE_START, INTEGER_1, BRACE_END, BRACE_START, BRACE_END,
      BRACKET_END>>

NoCommaSeeds ==
    {ARRAY_NO_COMMAS, OBJECT_NO_COMMA, ARRAY_ANNOS_NO_COMMA, ARRAY_NESTED_NO_COMMA,
     ARRAY_OBJECTS_NO_COMMA}

\* a character of two bytes in UTF-8
E_ACUTE == "U+00E9"

\* strings and comments with control characters, after a character of two
\* bytes and after characters of one byte
ControlTokens ==
    { Tok("DOUBLE_QUOTE", <<"\"", E_ACUTE, SOH, "\"">>),
      Tok("DOUBLE_QUOTE", <<"\"", "a", SOH, DEL, "\"">>),
      Tok("SINGLE_QUOTE", <<"'", E_ACUTE, DEL, "'">>),
      Tok("SINGLE_QUOTE", <<"'", SOH, "a", SOH, "'">>),
      Tok("BACKTICK_QUOTE", <<BACKTICK, E_ACUTE, E_ACUTE, SOH, BACKTICK>>),
      Tok("BACKTICK_QUOTE", <<BACKTICK, "\n", SOH, DEL, BACKTICK>>) }

ControlComments ==
    { Tok("COMMENT_LINE", <<"/", "/", E_ACUTE, SOH>>),
      Tok("COMMENT_LINE", <<"/", "/", "a", SOH, DEL>>),
      Tok("COMMENT_BLOCK", <<"/", "*", E_ACUTE, DEL, "*", "/">>),
      Tok("COMMENT_BLOCK", <<"/", "*", "\n", SOH, "*", "/">>) }

\* a string alone, a string as a key, a comment before a value
ControlSeeds ==
    {<<t>> : t \in ControlTokens}
    \cup {KeyDoc(k) : k \in {t \in ControlTokens : t.kind # "BACKTICK_QUOTE"}}
    \cup {<<t, NEWLINE, INTEGER_1>> : t \in ControlComments}

\* arrays and objects that follow the grammar
GrammarSeeds ==
    { ARRAY_ANNOS_COMMA, OBJECT_ANNOS_COMMA, ARRAY_FULL, ARRAY_TRAILING_COMMA,
      OBJECT_TRAILING_COMMA, ARRAY_LAST_ANNOS, ARRAY_SECOND_ANNOS }

\* 1 @a("a") @b
ROOT_ANNOS ==
    <<INTEGER_1, WHITESPACE, AT, IDENT_A, PARENTHESES_START, STRING_A,
      PARENTHESES_END, WHITESPACE, AT, IDENT_B>>
\* 1 @a
ROOT_ANNO == <<INTEGER_1, WHITESPACE, AT, IDENT_A>>

\* [1, 2, @a(true) 3]
ARRAY_TAG ==
    <<BRACKET_START, INTEGER_1, COMMA, WHITESPACE, INTEGER_2, COMMA, WHITESPACE,
      AT, IDENT_A, PARENTHESES_START, BOOL_TRUE, PARENTHESES_END, WHITESPACE,
      INTEGER_3, BRACKET_END>>

\* blanks, newlines and comments and nothing else
TriviaSeeds ==
    { <<WHITESPACE, COMMENT_LINE, NEWLINE, COMMENT_BLOCK>>, <<NEWLINE>>,
      <<COMMENT_BLOCK, WHITESPACE>>, <<COMMENT_LINE>> }

\* a longer input with errors of many kinds: [@1(1"\x01"+1
LONG_ERRORS ==
    <<BRACKET_START, AT, INTEGER_1, PARENTHESES_START, INTEGER_1,
      STRING_SOH, INTEGER_PLUS_1>>

\* inputs that are followed beside every input of at most MaxTokens tokens
Seeds ==
    {LONG_ERRORS, ROOT_ANNOS, ROOT_ANNO, ARRAY_TAG}
    \cup ValueSeeds \cup KeySeeds \cup GrammarSeeds \cup TriviaSeeds
    \cup NoCommaSeeds \cup ControlSeeds

\* the token sequences the lexer may have scanned
Admissible(s) ==
    \/ /\ Len(s) <= MaxTokens
       /\ \A i \in DOMAIN s : s[i] \in Significant \cup Skipped
       /\ Lexable(s)
    \/ \E z \in Seeds : IsPrefix(s, z)

\* the sequences of at most n skipped tokens
RECURSIVE SkipSeqs(_)
SkipSeqs(n) ==
    IF n <= 0 THEN {<<>>}
    ELSE SkipSeqs(n - 1) \cup
         {Append(q, t) : q \in {x \in SkipSeqs(n - 1) : Len(x) = n - 1}, t \in Skipped}

\* what follows s in the seed z, up to its next significant token
SeedRun(s, z) ==
    LET rest == SubSeq(z, Len(s) + 1, Len(z))
        sig == {i \in 1..Len(rest) : rest[i].kind \notin SkippedKinds}
        k == IF sig = {} THEN Len(rest) + 1
             ELSE CHOOSE i \in sig : \A j \in sig : i <= j
    IN [skipped |-> SubSeq(rest, 1, k - 1),
        tok |-> IF k <= Len(rest) THEN rest[k] ELSE EOF]

RunTokens(run) == run.skipped \o (IF run.tok = EOF THEN <<>> ELSE <<run.tok>>)

\* one call of next_token scans a run: the tokens it skips, then a significant
\* token or the end of the source
LexRuns(s) ==
    {run \in [skipped : SkipSeqs(MaxTokens - Len(s)), tok : Significant \cup {EOF}] :
        Admissible(s \o RunTokens(run))}
    \cup {SeedRun(s, z) : z \in {y \in Seeds : IsPrefix(s, y)}}

(***************************************************************************)
(* rowan's GreenNodeBuilder, as parser.rs drives it: start_node pushes     *)
(* (kind, children.len()) on parents; finish_node pops it and wraps the    *)
(* children from that index on into one node; token appends a leaf;        *)
(* finish asserts that exactly one child is left and returns it.           *)
(***************************************************************************)
IsNode(e) == "children" \in DOMAIN e

start_node(b, kind) ==
    [b EXCEPT !.parents = Append(@, [kind |-> kind, first_child |-> Len(b.children)])]

finish_node(b) ==
    LET top == b.parents[Len(b.parents)]
    IN [parents |-> SubSeq(b.parents, 1, Len(b.parents) - 1),
        children |-> Append(SubSeq(b.children, 1, top.first_child),
                            [kind |-> top.kind,
                             children |-> SubSeq(b.children, top.first_child + 1,
                                                 Len(b.children))])]

token(b, kind, text) ==
    [b EXCEPT !.children = Append(@, [kind |-> kind, text |-> text])]

\* GreenNodeBuilder::finish panics unless one node is all that is left
finish_panics(b) == ~(Len(b.children) = 1 /\ IsNode(b.children[1]))

NoNode == [kind |-> None, children |-> <<>>]

finish(b) == IF finish_panics(b) THEN NoNode ELSE b.children[1]

\* the texts of the tokens of a tree, in document order
RECURSIVE TokenTexts(_)
TokenTexts(e) ==
    IF IsNode(e)
    THEN Concat([i \in 1..Len(e.children) |-> TokenTexts(e.children[i])])
    ELSE <<e.text>>

(***************************************************************************)
(* The Parser struct and its primitives (parser.rs 362-494).  P is the     *)
(* struct as a record; a primitive gives the struct after the call, or     *)
(* [p, res] when it also returns a ParserResult.                           *)
(***************************************************************************)
TextRange(s, e) == [start |-> s, end |-> e]

Error(range, message) == [range |-> range, message |-> message]

R(p, res) == [p |-> p, res |-> res]

span(P) == P.lexer.span

slice(P) == P.lexer.slice

add_error_always(P, e) == [P EXCEPT !.errors = Append(@, e)]

add_error(P, e) ==
    IF Len(P.errors) > 0 /\ P.errors[Len(P.errors)].range = e.range
    THEN [P EXCEPT !.last_dropped = e]
    ELSE [P EXCEPT !.errors = Append(@, e)]

build_error(P, message) == Error(TextRange(span(P).start, span(P).end), message)

consume_token(P, kind, text) ==
    [P EXCEPT !.builder = token(@, kind, text), !.current_token = None]

\* one error per index e of err_indices, at span.start + e, zero wide
RECURSIVE add_char_errors(_, _, _)
add_char_errors(P, err_indices, message) ==
    IF err_indices = <<>> THEN P
    ELSE add_char_errors(
            add_error(P, Error(TextRange(span(P).start + Head(err_indices),
                                         span(P).start + Head(err_indices)), message)),
            Tail(err_indices), message)

\* lexer.next() gave the token t
advance(P, t) ==
    [P EXCEPT !.src = Append(@, t),
              !.lexer = [span |-> TextRange(span(P).end, span(P).end + ByteLenOf(t.text)),
                         slice |-> t.text, done |-> FALSE]]

\* lexer.next() gave None
at_end(P) ==
    [P EXCEPT !.lexer = [span |-> TextRange(span(P).end, span(P).end),
                         slice |-> <<>>, done |-> TRUE]]

\* the arms of next_token's loop that do not break
RECURSIVE next_token_skip(_, _)
next_token_skip(P, skipped) ==
    IF skipped = <<>> THEN P
    ELSE LET t == Head(skipped)
             Q == advance(P, t)
             Q1 == CASE t.kind \in {"COMMENT_LINE", "COMMENT_BLOCK"} ->
                          consume_token(
                              add_char_errors(Q,
                                  allowed_chars_comment(t.text, t.kind = "COMMENT_BLOCK"),
                                  "invalid character in comment"),
                              t.kind, t.text)
                      [] t.kind = "ERROR" ->
                          add_error(consume_token(Q, t.kind, t.text),
                                    Error(TextRange(span(Q).start, span(Q).end),
                                          "unexpected token"))
                      [] OTHER -> consume_token(Q, t.kind, t.text)
         IN next_token_skip(Q1, Tail(skipped))

next_token(P, run) ==
    LET Q == next_token_skip([P EXCEPT !.current_token = None], run.skipped)
    IN IF run.tok = EOF
       THEN at_end(Q)
       ELSE [advance(Q, run.tok) EXCEPT !.current_token = run.tok.kind]

peek_token(P, run) ==
    IF P.current_token = None THEN next_token(P, run) ELSE P

\* the peek without the error at the end of the input
must_peek_token_silent(P, run) == peek_token(P, run)

must_peek_token(P, run) ==
    LET Q == peek_token(P, run)
    IN IF Q.current_token # None THEN Q
       ELSE add_error(Q, build_error(Q, "unexpected EOF"))

must_peek_eof(P, run) ==
    LET Q == peek_token(P, run)
    IN IF Q.current_token # None
       THEN R(add_error(Q, build_error(Q, "expected EOF")), Err)
       ELSE R(Q, Ok)

\* every caller has peeked a token before: peek_token scans nothing here
consume_current_token(P) ==
    IF P.current_token = None THEN R(P, Err)
    ELSE R(consume_token(P, P.current_token, slice(P)), Ok)

consume_error_token(P, message) ==
    R(consume_token(add_error(P, build_error(P, message)), "ERROR", slice(P)), Err)

must_token_or(P, run, kind, message) ==
    LET Q == must_peek_token(P, run)
    IN IF Q.current_token = None THEN R(Q, Err)
       ELSE IF Q.current_token = kind THEN consume_current_token(Q)
       ELSE R(add_error(Q, build_error(Q, message)), Err)

(***************************************************************************)
(* The arms of parse_value and parse_key that consume one token.           *)
(***************************************************************************)
\* the test without the arms for signed texts
zero_padded_unsigned(s) ==
    starts_with(s, <<"0">>) /\ s # <<"0">>

zero_padded(s) ==
    \/ starts_with(s, <<"0">>) /\ s # <<"0">>
    \/ starts_with(s, <<"+", "0">>) /\ s # <<"+", "0">>
    \/ starts_with(s, <<"-", "0">>) /\ s # <<"-", "0">>

int_slice(s) == IF contains(s, ".") THEN split_first(s, ".") ELSE split_first(s, "e")

parse_radix_integer(P, radix) ==
    IF ~validate_underscore_integer(slice(P), radix)
    THEN consume_error_token(P, "invalid underscores")
    ELSE consume_current_token(P)

parse_value_token(P) ==
    LET t == P.current_token
        s == slice(P)
    IN CASE t \in {"NULL", "BOOL"} -> consume_current_token(P)
         [] t = "INTEGER" ->
              IF zero_padded(s)
              THEN consume_error_token(P, "zero-padded integers are not allowed")
              ELSE parse_radix_integer(P, 10)
         [] t = "INTEGER_BIN" -> parse_radix_integer(P, 2)
         [] t = "INTEGER_HEX" -> parse_radix_integer(P, 16)
         [] t = "INTEGER_OCT" -> parse_radix_integer(P, 8)
         [] t = "FLOAT" ->
              IF zero_padded(int_slice(s))
              THEN consume_error_token(P, "zero-padded numbers are not allowed")
              ELSE parse_radix_integer(P, 10)
         [] t \in {"DOUBLE_QUOTE", "SINGLE_QUOTE"} ->
              consume_current_token(
                  add_char_errors(
                      add_char_errors(P, allowed_chars_string(s),
                                      "invalid character in string"),
                      check_escape(s), "invalid escape sequence"))
         [] t = "BACKTICK_QUOTE" ->
              consume_current_token(
                  add_char_errors(P, allowed_chars_backtick_string(s),
                                  "invalid character in string"))
         [] OTHER -> consume_error_token(P, "expected value")

parse_key_token(P) ==
    LET t == P.current_token
        s == slice(P)
    IN CASE t \in {"IDENT", "NULL", "BOOL", "INTEGER_HEX", "INTEGER_BIN", "INTEGER_OCT"} ->
              consume_current_token(P)
         [] t = "INTEGER" ->
              IF starts_with(s, <<"+">>) THEN R(P, Err) ELSE consume_current_token(P)
         [] t \in {"SINGLE_QUOTE", "DOUBLE_QUOTE"} ->
              consume_current_token(
                  add_char_errors(P, allowed_chars_string(s),
                                  "invalid control character in string"))
         [] t = "FLOAT" ->
              IF starts_with(s, <<"0">>)
              THEN consume_error_token(P, "zero-padded numbers are not allowed")
              ELSE IF starts_with(s, <<"+">>) THEN R(P, Err)
              ELSE consume_current_token(P)
         [] OTHER -> consume_error_token(P, "expected identifier")

(***************************************************************************)
(* The call stack.  A frame is a function of the parser at one of its      *)
(* program points; kind, span and is_comma are the locals of               *)
(* parse_value_with_annos; mark and spin record, for the loops of          *)
(* parse_object and parse_array, how far the lexer was at the last         *)
(* iteration and how many iterations in a row left it there.               *)
(***************************************************************************)
Frame(fn, kind) ==
    [fn |-> fn, pc |-> "start", kind |-> kind, span |-> TextRange(0, 0),
     is_comma |-> FALSE, mark |-> -1, spin |-> 0]

Top == stack[Len(stack)]

At(fn, pc) == status = "running" /\ stack # <<>> /\ Top.fn = fn /\ Top.pc = pc

Self ==
    [src |-> src, lexer |-> lexer, current_token |-> current_token,
     builder |-> builder, errors |-> errors, last_dropped |-> last_dropped]

Store(P) ==
    /\ src' = P.src
    /\ lexer' = P.lexer
    /\ current_token' = P.current_token
    /\ builder' = P.builder
    /\ errors' = P.errors
    /\ last_dropped' = P.last_dropped

EofRun == [skipped |-> <<>>, tok |-> EOF]

\* what the next call of lexer.next() (and those after it, while it skips) may give
Runs == IF current_token = None /\ ~lexer.done THEN LexRuns(src) ELSE {EofRun}

Goto(pc) == [stack EXCEPT ![Len(stack)].pc = pc]

Jump(pc) == stack' = Goto(pc) /\ ret' = None

Call(pc, frame) == stack' = Append(Goto(pc), frame) /\ ret' = None

Return(res) == stack' = SubSeq(stack, 1, Len(stack) - 1) /\ ret' = res

Started(P, kind) == [P EXCEPT !.builder = start_node(@, kind)]

Finished(P) == [P EXCEPT !.builder = finish_node(@)]

\* the loop head of parse_object and parse_array sees the lexer at pos
Iterate(pc, frame, pos) ==
    /\ stack' = Append([stack EXCEPT ![Len(stack)] =
                            [Top EXCEPT !.pc = pc, !.mark = pos,
                                        !.spin = IF pos = Top.mark THEN Top.spin + 1 ELSE 0]],
                       frame)
    /\ ret' = None

(***************************************************************************)
(* parse, parse_root                                                       *)
(***************************************************************************)
parse ==
    /\ At("parse", "start")
    /\ Store(Started(Self, "ROOT"))
    /\ Call("finish", Frame("parse_root", None))
    /\ UNCHANGED <<status, green_node>>
    /\ UNCHANGED dom_vars

parse_finish ==
    /\ At("parse", "finish")
    /\ Store(Finished(Self))
    /\ status' = IF finish_panics(finish_node(builder)) THEN "panicked" ELSE "returned"
    /\ green_node' = finish(finish_node(builder))
    /\ Return(ret)
    /\ UNCHANGED dom_vars

parse_root ==
    /\ At("parse_root", "start")
    /\ Store(Self)
    /\ Call("value", Frame("parse_annos", None))
    /\ UNCHANGED <<status, green_node>>
    /\ UNCHANGED dom_vars

parse_root_value ==
    /\ At("parse_root", "value")
    /\ IF ret = Err
       THEN Store(Self) /\ Return(Err)
       ELSE Store(Started(Self, "VALUE")) /\ Call("eof", Frame("parse_value", None))
    /\ UNCHANGED <<status, green_node>>
    /\ UNCHANGED dom_vars

parse_root_eof ==
    /\ At("parse_root", "eof")
    /\ \E run \in Runs :
          IF ret = Err
          THEN Store(Finished(Self)) /\ Return(Err)
          ELSE LET r == must_peek_eof(Finished(Self), run)
               IN Store(r.p) /\ Return(r.res)
    /\ UNCHANGED <<status, green_node>>
    /\ UNCHANGED dom_vars

(***************************************************************************)
(* parse_annos, parse_anno_entry, parse_anno_value                         *)
(***************************************************************************)
parse_annos ==
    /\ At("parse_annos", "start")
    /\ \E run \in Runs :
          LET P1 == peek_token(Self, run)
          IN IF P1.current_token = "AT"
             THEN Store(Started(P1, "ANNOS")) /\ Jump("loop")
             ELSE Store(P1) /\ Return(Ok)
    /\ UNCHANGED <<status, green_node>>
    /\ UNCHANGED dom_vars

parse_annos_loop ==
    /\ At("parse_annos", "loop")
    /\ \E run \in Runs :
          LET P1 == peek_token(Self, run)
          IN IF P1.current_token = "AT"
             THEN /\ Store(Started(P1, "ENTRY"))
                  /\ Call("entry_done", Frame("parse_anno_entry", None))
             ELSE Store(Finished(P1)) /\ Return(Ok)
    /\ UNCHANGED <<status, green_node>>
    /\ UNCHANGED dom_vars

\* with_node!(ENTRY, ...)? : on Err the function returns with ANNOS still open
parse_annos_entry_done ==
    /\ At("parse_annos", "entry_done")
    /\ Store(Finished(Self))
    /\ IF ret = Err THEN Return(Err) ELSE Jump("loop")
    /\ UNCHANGED <<status, green_node>>
    /\ UNCHANGED dom_vars

parse_anno_entry ==
    /\ At("parse_anno_entry", "start")
    /\ \E run \in Runs :
          LET r == must_token_or(Self, run, "AT", "expected \"@\"")
          IN IF r.res = Err
             THEN Store(r.p) /\ Return(Err)
             ELSE Store(Started(r.p, "KEY")) /\ Call("key_done", Frame("parse_key", None))
    /\ UNCHANGED <<status, green_node>>
    /\ UNCHANGED dom_vars

parse_anno_entry_key_done ==
    /\ At("parse_anno_entry", "key_done")
    /\ \E run \in Runs :
          IF ret = Err
          THEN Store(Finished(Self)) /\ Return(Err)
          ELSE LET P1 == peek_token(Finished(Self), run)
               IN IF P1.current_token = "PARENTHESES_START"
                  THEN /\ Store(Started(P1, "VALUE"))
                       /\ Call("value_done", Frame("parse_anno_value", None))
                  ELSE Store(P1) /\ Return(Ok)
    /\ UNCHANGED <<status, green_node>>
    /\ UNCHANGED dom_vars

parse_anno_entry_value_done ==
    /\ At("parse_anno_entry", "value_done")
    /\ Store(Finished(Self))
    /\ Return(ret)
    /\ UNCHANGED <<status, green_node>>
    /\ UNCHANGED dom_vars

parse_anno_value ==
    /\ At("parse_anno_value", "start")
    /\ \E run \in Runs :
          LET r == must_token_or(Self, run, "PARENTHESES_START", "expected \"(\"")
          IN IF r.res = Err
             THEN Store(r.p) /\ Return(Err)
             ELSE /\ Store(Started(r.p, "VALUE"))
                  /\ Call("value_done", Frame("parse_value", None))
    /\ UNCHANGED <<status, green_node>>
    /\ UNCHANGED dom_vars

parse_anno_value_done ==
    /\ At("parse_anno_value", "value_done")
    /\ \E run \in Runs :
          IF ret = Err
          THEN Store(Finished(Self)) /\ Return(Err)
          ELSE LET r == must_token_or(Finished(Self), run, "PARENTHESES_END",
                                      "expected \")\"")
               IN Store(r.p) /\ Return(r.res)
    /\ UNCHANGED <<status, green_node>>
    /\ UNCHANGED dom_vars

(***************************************************************************)
(* parse_entry, parse_key                                                  *)
(***************************************************************************)
parse_entry ==
    /\ At("parse_entry", "start")
    /\ Store(Started(Self, "KEY"))
    /\ Call("key_done", Frame("parse_key", None))
    /\ UNCHANGED <<status, green_node>>
    /\ UNCHANGED dom_vars

parse_entry_key_done ==
    /\ At("parse_entry", "key_done")
    /\ \E run \in Runs :
          IF ret = Err
          THEN Store(Finished(Self)) /\ Return(Err)
          ELSE LET r == must_token_or(Finished(Self), run, "COLON", "expected \":\"")
               IN IF r.res = Err
                  THEN Store(r.p) /\ Return(Err)
                  ELSE /\ Store(Started(r.p, "VALUE"))
                       /\ Call("value_done", Frame("parse_value_with_annos", "BRACE_END"))
    /\ UNCHANGED <<status, green_node>>
    /\ UNCHANGED dom_vars

parse_entry_value_done ==
    /\ At("parse_entry", "value_done")
    /\ Store(Finished(Self))
    /\ Return(ret)
    /\ UNCHANGED <<status, green_node>>
    /\ UNCHANGED dom_vars

parse_key ==
    /\ At("parse_key", "start")
    /\ \E run \in Runs :
          LET P1 == must_peek_token(Self, run)
          IN IF P1.current_token = None
             THEN Store(P1) /\ Return(Err)
             ELSE Store(parse_key_token(P1).p) /\ Return(parse_key_token(P1).res)
    /\ UNCHANGED <<status, green_node>>
    /\ UNCHANGED dom_vars

(***************************************************************************)
(* parse_value, parse_value_with_annos                                     *)
(***************************************************************************)
parse_value ==
    /\ At("parse_value", "start")
    /\ \E run \in Runs :
          LET P1 == must_peek_token(Self, run)
          IN IF P1.current_token = None
             THEN Store(P1) /\ Return(Err)
             ELSE IF P1.current_token = "BRACE_START"
             THEN /\ Store(Started(P1, "OBJECT"))
                  /\ Call("node_done", Frame("parse_object", None))
             ELSE IF P1.current_token = "BRACKET_START"
             THEN /\ Store(Started(P1, "ARRAY"))
                  /\ Call("node_done", Frame("parse_array", None))
             ELSE Store(parse_value_token(P1).p) /\ Return(parse_value_token(P1).res)
    /\ UNCHANGED <<status, green_node>>
    /\ UNCHANGED dom_vars

parse_value_node_done ==
    /\ At("parse_value", "node_done")
    /\ Store(Finished(Self))
    /\ Return(ret)
    /\ UNCHANGED <<status, green_node>>
    /\ UNCHANGED dom_vars

parse_value_with_annos ==
    /\ At("parse_value_with_annos", "start")
    /\ Store(Self)
    /\ Call("comma", Frame("parse_value", None))
    /\ UNCHANGED <<status, green_node>>
    /\ UNCHANGED dom_vars

\* lines 247-254: the span is taken before the comma is looked for
parse_value_with_annos_comma ==
    /\ At("parse_value_with_annos", "comma")
    /\ \E run \in Runs :
          IF ret = Err
          THEN Store(Self) /\ Return(Err)
          ELSE LET P1 == peek_token(Self, run)
                   is_comma == P1.current_token = "COMMA"
               IN /\ Store(IF is_comma THEN consume_current_token(P1).p ELSE P1)
                  /\ stack' = Append([stack EXCEPT ![Len(stack)] =
                                         [@ EXCEPT !.pc = "end", !.span = span(Self),
                                                   !.is_comma = is_comma]],
                                     Frame("parse_annos", None))
                  /\ ret' = None
    /\ UNCHANGED <<status, green_node>>
    /\ UNCHANGED dom_vars

\* the error put on the token the parser is at, not on the value
expect_comma_at_peek(P, sp) ==
    add_error(P, build_error(P, "expect \",\""))

expect_comma(P, sp) ==
    add_error(P, Error(TextRange(sp.start, sp.end), "expect \",\""))

\* lines 254-265
parse_value_with_annos_end ==
    /\ At("parse_value_with_annos", "end")
    /\ \E run \in Runs :
          IF ret = Err
          THEN Store(Self) /\ Return(Err)
          ELSE LET P1 == peek_token(Self, run)
                   is_end == P1.current_token = Top.kind
               IN IF P1.current_token = None
                  THEN Store(P1) /\ Return(Err)
                  ELSE /\ Store(IF ~Top.is_comma /\ ~is_end
                                THEN expect_comma(P1, Top.span) ELSE P1)
                       /\ Return(Ok)
    /\ UNCHANGED <<status, green_node>>
    /\ UNCHANGED dom_vars

(***************************************************************************)
(* parse_object, parse_array                                               *)
(***************************************************************************)
parse_object ==
    /\ At("parse_object", "start")
    /\ \E run \in Runs :
          LET r == must_token_or(Self, run, "BRACE_START", "expected \"{\"")
          IN IF r.res = Err
             THEN Store(r.p) /\ Return(Err)
             ELSE Store(r.p) /\ Call("annos_done", Frame("parse_annos", None))
    /\ UNCHANGED <<status, green_node>>
    /\ UNCHANGED dom_vars

\* self.parse_annos()?
parse_object_annos_done ==
    /\ At("parse_object", "annos_done")
    /\ Store(Self)
    /\ IF ret = Err THEN Return(Err) ELSE Jump("loop")
    /\ UNCHANGED <<status, green_node>>
    /\ UNCHANGED dom_vars

\* one pass of `while let Ok(t) = self.must_peek_token()`, up to the call in its arm
container_loop(end_kind, body_kind, body_frame) ==
    /\ Top.spin < MaxSpin
    /\ \E run \in Runs :
          LET P1 == must_peek_token(Self, run)
              t == P1.current_token
          IN IF t = None
             THEN Store(P1) /\ Return(Ok)
             ELSE IF t = end_kind
             THEN Store(consume_current_token(P1).p) /\ Return(Ok)
             ELSE IF t = "AT"
             THEN /\ Store(add_error(P1, build_error(P1, "unexpected \"@\"")))
                  /\ Iterate("at_done", Frame("parse_annos", None), Len(P1.src))
             ELSE /\ Store(Started(P1, body_kind))
                  /\ Iterate("body_done", body_frame, Len(P1.src))

parse_object_loop ==
    /\ At("parse_object", "loop")
    /\ container_loop("BRACE_END", "ENTRY", Frame("parse_entry", None))
    /\ UNCHANGED <<status, green_node>>
    /\ UNCHANGED dom_vars

\* self.parse_annos()? in the AT arm
parse_object_at_done ==
    /\ At("parse_object", "at_done")
    /\ Store(Self)
    /\ IF ret = Err THEN Return(Err) ELSE Jump("loop")
    /\ UNCHANGED <<status, green_node>>
    /\ UNCHANGED dom_vars

\* let _ = with_node!(ENTRY, self.parse_entry())
parse_object_entry_done ==
    /\ At("parse_object", "body_done")
    /\ Store(Finished(Self))
    /\ Jump("loop")
    /\ UNCHANGED <<status, green_node>>
    /\ UNCHANGED dom_vars

parse_array ==
    /\ At("parse_array", "start")
    /\ \E run \in Runs :
          LET r == must_token_or(Self, run, "BRACKET_START", "expected \"[\"")
          IN IF r.res = Err
             THEN Store(r.p) /\ Return(Err)
             ELSE Store(r.p) /\ Call("annos_done", Frame("parse_annos", None))
    /\ UNCHANGED <<status, green_node>>
    /\ UNCHANGED dom_vars

\* let _ = self.parse_annos()
parse_array_annos_done ==
    /\ At("parse_array", "annos_done")
    /\ Store(Self)
    /\ Jump("loop")
    /\ UNCHANGED <<status, green_node>>
    /\ UNCHANGED dom_vars

parse_array_loop ==
    /\ At("parse_array", "loop")
    /\ container_loop("BRACKET_END", "VALUE",
                      Frame("parse_value_with_annos", "BRACKET_END"))
    /\ UNCHANGED <<status, green_node>>
    /\ UNCHANGED dom_vars

parse_array_at_done ==
    /\ At("parse_array", "at_done")
    /\ Store(Self)
    /\ IF ret = Err THEN Return(Err) ELSE Jump("loop")
    /\ UNCHANGED <<status, green_node>>
    /\ UNCHANGED dom_vars

parse_array_value_done ==
    /\ At("parse_array", "body_done")
    /\ Store(Finished(Self))
    /\ Jump("loop")
    /\ UNCHANGED <<status, green_node>>
    /\ UNCHANGED dom_vars

(***************************************************************************)
(* dom/node.rs: Key.  A key is an object of its own (id), backed by the    *)
(* text of a syntax token or synthesized from a string (Key::new).         *)
(***************************************************************************)
\* util::escape::unescape on the text between the quotes: the escapes of
\* check_escape replaced by what they stand for, or an error
RECURSIVE unescape_from(_, _)
unescape_from(s, i) ==
    IF i > Len(s) THEN [ok |-> TRUE, value |-> <<>>]
    ELSE IF s[i] # "\\"
         THEN LET r == unescape_from(s, i + 1)
              IN [ok |-> r.ok, value |-> <<s[i]>> \o r.value]
    ELSE IF i < Len(s) /\ s[i + 1] \in {"\"", "\\", "/"}
         THEN LET r == unescape_from(s, i + 2)
              IN [ok |-> r.ok, value |-> <<s[i + 1]>> \o r.value]
    ELSE IF i < Len(s) /\ s[i + 1] \in {"b", "f", "n", "r", "t"}
         THEN LET r == unescape_from(s, i + 2)
              IN [ok |-> r.ok, value |-> <<"\\" \o s[i + 1]>> \o r.value]
    ELSE IF /\ i + 5 <= Len(s)
            /\ s[i + 1] = "u"
            /\ \A k \in 2..5 : is_digit(s[i + k], 16)
         THEN LET r == unescape_from(s, i + 6)
                  hex == SubSeq(s, i + 2, i + 5)
              IN [ok |-> r.ok,
                  value |-> <<IF hex = <<"0", "0", "6", "1">> THEN "a"
                              ELSE "U+" \o hex[1] \o hex[2] \o hex[3] \o hex[4]>>
                            \o r.value]
    ELSE [ok |-> FALSE, value |-> <<>>]

unescape(s) == unescape_from(s, 1)

strip_prefix(s, c) == IF starts_with(s, <<c>>) THEN SubSeq(s, 2, Len(s)) ELSE s

strip_suffix(s, c) == IF ends_with(s, <<c>>) THEN SubSeq(s, 1, Len(s) - 1) ELSE s

\* Key::value: what get_or_init computes
key_value(k) ==
    IF k.synth THEN k.text
    ELSE IF starts_with(k.text, <<"'">>)
         THEN strip_suffix(strip_prefix(k.text, "'"), "'")
    ELSE IF starts_with(k.text, <<"\"">>)
         THEN LET r == unescape(strip_suffix(strip_prefix(k.text, "\""), "\""))
              IN IF r.ok THEN r.value ELSE <<>>
    ELSE k.text

\* a plausible slip: the validity of the keys is not looked at
key_eq_by_value(a, b) == key_value(a) = key_value(b)

\* impl PartialEq for Key
key_eq(a, b) ==
    IF ~a.is_valid \/ ~b.is_valid THEN FALSE
    ELSE key_value(a) = key_value(b)

\* impl Hash for Key: what is fed to the hasher
key_hash(k) ==
    IF ~k.is_valid THEN [int |-> 0, str |-> <<>>]
    ELSE [int |-> -1, str |-> key_value(k)]

(***************************************************************************)
(* std HashMap<Key, Node>, as a set of slots [key, node]: a slot is found  *)
(* by a key of the same hash that is equal to its key; insert on a found   *)
(* slot replaces the node and keeps the slot's key.                        *)
(***************************************************************************)
map_find(lookup, k) ==
    {slot \in lookup : key_hash(slot.key) = key_hash(k) /\ key_eq(slot.key, k)}

map_insert(lookup, k, n) ==
    IF map_find(lookup, k) = {}
    THEN lookup \cup {[key |-> k, node |-> n]}
    ELSE {IF slot \in map_find(lookup, k) THEN [slot EXCEPT !.node = n] ELSE slot :
            slot \in lookup}

\* HashMap::get / get_key_value as an Option: the empty set is None
map_get(lookup, k) == {slot.node : slot \in map_find(lookup, k)}

(***************************************************************************)
(* dom/node.rs: Entries and Object                                         *)
(***************************************************************************)
EmptyEntries == [lookup |-> {}, all |-> <<>>]

\* a plausible slip: the entry is listed but not entered into lookup
entries_add_without_lookup(e, k, n) ==
    [lookup |-> e.lookup,
     all |-> Append(e.all, [key |-> k, node |-> n])]

\* Entries::add
entries_add(e, k, n) ==
    [lookup |-> map_insert(e.lookup, k, n),
     all |-> Append(e.all, [key |-> k, node |-> n])]

\* impl FromIterator<(Key, Node)> for Entries
RECURSIVE from_iter_loop(_, _)
from_iter_loop(e, items) ==
    IF items = <<>> THEN e
    ELSE from_iter_loop(
            [lookup |-> map_insert(e.lookup, Head(items).key, Head(items).node),
             all |-> Append(e.all, Head(items))],
            Tail(items))

from_iter(items) == from_iter_loop(EmptyEntries, items)

ConflictingKeys(key, other) == [key |-> key, other |-> other]

\* Object::get
object_get(e, k) == map_get(e.lookup, k)

\* a plausible slip: the conflict is looked for after the entry was added
add_entry_check_after(o, k, n) ==
    LET added == entries_add(o.entries, k, n)
        found == map_find(added.lookup, k)
    IN [entries |-> added,
        errors |-> IF found # {}
                   THEN Append(o.errors,
                               ConflictingKeys(k, (CHOOSE slot \in found : TRUE).key))
                   ELSE o.errors]

\* Object::add_entry on the object o = [entries, errors]
add_entry(o, k, n) ==
    LET found == map_find(o.entries.lookup, k)
    IN [entries |-> entries_add(o.entries, k, n),
        errors |-> IF found # {}
                   THEN Append(o.errors,
                               ConflictingKeys(k, (CHOOSE slot \in found : TRUE).key))
                   ELSE o.errors]

(***************************************************************************)
(* Building an object and an annotation container, entry by entry.         *)
(***************************************************************************)
Key(id, synth, text, is_valid) ==
    [id |-> id, synth |-> synth, text |-> text, is_valid |-> is_valid]

\* the keys of the entries of an object: a, b, "a", "a", and an a that the
\* DOM builder marked invalid
ObjectKeyShapes ==
    { [synth |-> FALSE, text |-> <<"a">>, is_valid |-> TRUE],
      [synth |-> FALSE, text |-> <<"b">>, is_valid |-> TRUE],
      [synth |-> FALSE, text |-> <<"\"", "a", "\"">>, is_valid |-> TRUE],
      [synth |-> FALSE, text |-> <<"\"", "\\", "u", "0", "0", "6", "1", "\"">>,
       is_valid |-> TRUE],
      [synth |-> FALSE, text |-> <<"a">>, is_valid |-> FALSE] }

\* the keys of annotations: a, Key::new("a"), and an invalid a
AnnoKeyShapes ==
    { [synth |-> FALSE, text |-> <<"a">>, is_valid |-> TRUE],
      [synth |-> TRUE, text |-> <<"a">>, is_valid |-> TRUE],
      [synth |-> FALSE, text |-> <<"a">>, is_valid |-> FALSE] }

\* the node of the i-th entry added to a container: every node is an object
\* of its own
Node(i) == i

ShapedKey(id, shape) == Key(id, shape.synth, shape.text, shape.is_valid)

ObjectAddEntry ==
    /\ Len(entries.all) < MaxEntries
    /\ \E shape \in ObjectKeyShapes :
          LET o == add_entry([entries |-> entries, errors |-> obj_errors],
                             ShapedKey(Len(entries.all) + 1, shape),
                             Node(Len(entries.all) + 1))
          IN entries' = o.entries /\ obj_errors' = o.errors
    /\ UNCHANGED annos
    /\ UNCHANGED <<node_vars, serde_vars>>
    /\ UNCHANGED parser_vars
    /\ UNCHANGED lint_vars

\* keys of the source in each syntactic form: a, 1, "a", 'a', "\u0061",
\* '\u0061' and "1"
SyntaxKeyShapes ==
    { [synth |-> FALSE, text |-> t, is_valid |-> TRUE] :
        t \in { <<"a">>, <<"1">>, <<"\"", "a", "\"">>, <<"'", "a", "'">>,
                <<"\"", "\\", "u", "0", "0", "6", "1", "\"">>,
                <<"'", "\\", "u", "0", "0", "6", "1", "'">>,
                <<"\"", "1", "\"">> } }

\* Object::add_entry with a key of the source
ObjectAddSyntaxKey ==
    /\ Len(entries.all) < MaxEntries
    /\ \E shape \in SyntaxKeyShapes :
          LET o == add_entry([entries |-> entries, errors |-> obj_errors],
                             ShapedKey(Len(entries.all) + 1, shape),
                             Node(Len(entries.all) + 1))
          IN entries' = o.entries /\ obj_errors' = o.errors
    /\ UNCHANGED annos
    /\ UNCHANGED <<node_vars, serde_vars>>
    /\ UNCHANGED parser_vars
    /\ UNCHANGED lint_vars

EntriesAdd ==
    /\ Len(annos.all) < MaxAnnos
    /\ \E shape \in AnnoKeyShapes :
          annos' = entries_add(annos, ShapedKey(Len(annos.all) + 1, shape),
                              Node(Len(annos.all) + 1))
    /\ UNCHANGED <<entries, obj_errors>>
    /\ UNCHANGED <<node_vars, serde_vars>>
    /\ UNCHANGED parser_vars
    /\ UNCHANGED lint_vars

\* the sequences of at most n annotation entries
RECURSIVE AnnoItems(_)
AnnoItems(n) ==
    IF n <= 0 THEN {<<>>}
    ELSE AnnoItems(n - 1) \cup
         {Append(q, [key |-> ShapedKey(n, shape), node |-> Node(n)]) :
            q \in {x \in AnnoItems(n - 1) : Len(x) = n - 1}, shape \in AnnoKeyShapes}

EntriesFromIter ==
    /\ annos = EmptyEntries
    /\ \E items \in AnnoItems(MaxAnnos) : annos' = from_iter(items)
    /\ UNCHANGED <<entries, obj_errors>>
    /\ UNCHANGED <<node_vars, serde_vars>>
    /\ UNCHANGED parser_vars
    /\ UNCHANGED lint_vars

(***************************************************************************)
(* dom/node.rs: the scalar nodes and their lazily decoded values.  A node  *)
(* is [kind, repr, syntax, is_valid, errors, value]: syntax is <<>> (None) *)
(* or <<text>>, value is the OnceCell, <<>> while empty.                   *)
(***************************************************************************)
InvalidEscapeSequence(string) == [kind |-> "InvalidEscapeSequence", string |-> string]

UnexpectedSyntax(syntax) == [kind |-> "UnexpectedSyntax", syntax |-> syntax]

\* str::replace('_', "")
RECURSIVE remove_underscores(_)
remove_underscores(s) ==
    IF s = <<>> THEN <<>>
    ELSE IF Head(s) = "_" THEN remove_underscores(Tail(s))
    ELSE <<Head(s)>> \o remove_underscores(Tail(s))

\* str::trim_start_matches(p): every repetition of p at the start is removed
RECURSIVE trim_start_matches(_, _)
trim_start_matches(s, p) ==
    IF p # <<>> /\ starts_with(s, p)
    THEN trim_start_matches(SubSeq(s, Len(p) + 1, Len(s)), p)
    ELSE s

RECURSIVE trim_zeros(_)
trim_zeros(ds) ==
    IF Len(ds) > 1 /\ Head(ds) = "0" THEN trim_zeros(Tail(ds)) ELSE ds

\* the digits of u64::MAX in the radix, and of the magnitude of i64::MIN
U64MaxDigits(radix) ==
    CASE radix = 2 -> [i \in 1..64 |-> "1"]
      [] radix = 8 -> <<"1">> \o [i \in 1..21 |-> "7"]
      [] radix = 16 -> [i \in 1..16 |-> "f"]
      [] OTHER -> <<"1", "8", "4", "4", "6", "7", "4", "4", "0", "7",
                    "3", "7", "0", "9", "5", "5", "1", "6", "1", "5">>

I64MinDigits ==
    <<"9", "2", "2", "3", "3", "7", "2", "0", "3", "6",
      "8", "5", "4", "7", "7", "5", "8", "0", "8">>

\* the number written by the digits ds is above the one written by limit
RECURSIVE digits_above(_, _)
digits_above(ds, limit) ==
    IF Len(ds) # Len(limit) THEN Len(ds) > Len(limit)
    ELSE IF ds = <<>> THEN FALSE
    ELSE IF DigitValue(Head(ds)) # DigitValue(Head(limit))
         THEN DigitValue(Head(ds)) > DigitValue(Head(limit))
    ELSE digits_above(Tail(ds), Tail(limit))

RECURSIVE digits_value(_, _)
digits_value(ds, radix) ==
    IF ds = <<>> THEN 0
    ELSE digits_value(SubSeq(ds, 1, Len(ds) - 1), radix) * radix
         + DigitValue(ds[Len(ds)])

\* u64::from_str_radix / str::parse::<u64>: an optional '+', then digits of the
\* radix; an error on anything else and on overflow
parse_u64(s, radix) ==
    LET ds == IF starts_with(s, <<"+">>) THEN Tail(s) ELSE s
    IN IF ds = <<>> \/ \E i \in DOMAIN ds : ~is_digit(ds[i], radix)
       THEN [ok |-> FALSE, n |-> 0]
       ELSE IF digits_above(trim_zeros(ds), U64MaxDigits(radix))
       THEN [ok |-> FALSE, n |-> 0]
       ELSE [ok |-> TRUE, n |-> digits_value(trim_zeros(ds), radix)]

\* str::parse::<i64>: an optional sign, then decimal digits
parse_i64(s) ==
    LET neg == starts_with(s, <<"-">>)
        ds == IF neg \/ starts_with(s, <<"+">>) THEN Tail(s) ELSE s
    IN IF ds = <<>> \/ \E i \in DOMAIN ds : ~is_digit(ds[i], 10)
       THEN [ok |-> FALSE, n |-> 0]
       ELSE IF neg /\ digits_above(trim_zeros(ds), I64MinDigits)
       THEN [ok |-> FALSE, n |-> 0]
       ELSE IF ~neg /\ ~digits_above(I64MinDigits, trim_zeros(ds))
       THEN [ok |-> FALSE, n |-> 0]
       ELSE [ok |-> TRUE,
             n |-> IF neg THEN 0 - digits_value(trim_zeros(ds), 10)
                   ELSE digits_value(trim_zeros(ds), 10)]

unwrap_or_default(r) == IF r.ok THEN r.n ELSE 0

IntegerValue(variant, n) == [variant |-> variant, n |-> n]

Radix(repr) ==
    CASE repr = "Bin" -> 2
      [] repr = "Oct" -> 8
      [] repr = "Hex" -> 16
      [] OTHER -> 10

RadixPrefix(repr) ==
    CASE repr = "Bin" -> <<"0", "b">>
      [] repr = "Oct" -> <<"0", "o">>
      [] repr = "Hex" -> <<"0", "x">>
      [] OTHER -> <<>>

\* a plausible slip: the underscores are left in the text that is parsed
integer_decode_with_underscores(n) ==
    IF n.syntax = <<>> THEN IntegerValue("Positive", 0)
    ELSE LET text == n.syntax[1]
             int_text == text
         IN IF n.repr = "Dec"
            THEN IF starts_with(text, <<"-">>)
                 THEN IntegerValue("Negative", unwrap_or_default(parse_i64(int_text)))
                 ELSE IntegerValue("Positive", unwrap_or_default(parse_u64(int_text, 10)))
            ELSE IntegerValue("Positive",
                    unwrap_or_default(
                        parse_u64(trim_start_matches(int_text, RadixPrefix(n.repr)),
                                  Radix(n.repr))))

\* Integer::value: what get_or_init computes
integer_decode(n) ==
    IF n.syntax = <<>> THEN IntegerValue("Positive", 0)
    ELSE LET text == n.syntax[1]
             int_text == remove_underscores(text)
         IN IF n.repr = "Dec"
            THEN IF starts_with(text, <<"-">>)
                 THEN IntegerValue("Negative", unwrap_or_default(parse_i64(int_text)))
                 ELSE IntegerValue("Positive", unwrap_or_default(parse_u64(int_text, 10)))
            ELSE IntegerValue("Positive",
                    unwrap_or_default(
                        parse_u64(trim_start_matches(int_text, RadixPrefix(n.repr)),
                                  Radix(n.repr))))

\* Float::value: the text without underscores, read as an f64 (kept as written)
float_decode(n) ==
    IF n.syntax = <<>> THEN <<"0">> ELSE remove_underscores(n.syntax[1])

\* the quoted content of a string token, and what unescape makes of it
quoted_decode(text, q) ==
    LET r == unescape(strip_suffix(strip_prefix(text, q), q))
    IN IF r.ok THEN [v |-> r.value, errs |-> <<>>]
       ELSE [v |-> <<>>, errs |-> <<InvalidEscapeSequence(text)>>]

\* Str::value: what get_or_init computes, and the errors it pushes
str_decode(n) ==
    IF n.syntax = <<>> THEN [v |-> <<>>, errs |-> <<>>]
    ELSE LET text == n.syntax[1]
         IN CASE n.repr = "Double" -> quoted_decode(text, "\"")
              [] n.repr = "Single" -> quoted_decode(text, "'")
              [] OTHER ->
                   LET a == strip_prefix(text, BACKTICK)
                       b == IF starts_with(a, <<CR, LF>>) THEN SubSeq(a, 3, Len(a))
                            ELSE strip_prefix(a, LF)
                   IN [v |-> strip_suffix(b, BACKTICK), errs |-> <<>>]

\* Key::value as a node of the store: key_value, and the error it pushes
key_decode(n) ==
    LET k == [synth |-> n.syntax = <<>>,
              text |-> IF n.syntax = <<>> THEN <<>> ELSE n.syntax[1],
              is_valid |-> n.is_valid]
    IN [v |-> key_value(k),
        errs |-> IF /\ ~k.synth
                    /\ starts_with(k.text, <<"\"">>)
                    /\ ~unescape(strip_suffix(strip_prefix(k.text, "\""), "\"")).ok
                 THEN <<InvalidEscapeSequence(k.text)>> ELSE <<>>]

\* a plausible slip: a literal that does not fit leaves an error on the node
node_decode_overflow_error(n) ==
    CASE n.kind = "Str" -> str_decode(n)
      [] n.kind = "Key" -> key_decode(n)
      [] n.kind = "Integer" ->
           LET int_text == IF n.syntax = <<>> THEN <<>> ELSE remove_underscores(n.syntax[1])
               parsed == IF n.repr = "Dec"
                         THEN IF starts_with(int_text, <<"-">>)
                              THEN parse_i64(int_text) ELSE parse_u64(int_text, 10)
                         ELSE parse_u64(trim_start_matches(int_text, RadixPrefix(n.repr)),
                                        Radix(n.repr))
           IN [v |-> integer_decode(n),
               errs |-> IF n.syntax # <<>> /\ ~parsed.ok
                        THEN <<UnexpectedSyntax(n.syntax[1])>> ELSE <<>>]
      [] OTHER -> [v |-> float_decode(n), errs |-> <<>>]

node_decode(n) ==
    CASE n.kind = "Str" -> str_decode(n)
      [] n.kind = "Key" -> key_decode(n)
      [] n.kind = "Integer" -> [v |-> integer_decode(n), errs |-> <<>>]
      [] OTHER -> [v |-> float_decode(n), errs |-> <<>>]

\* a plausible slip: the value is decoded at every call
node_value_uncached(n) ==
    [n EXCEPT !.value = <<node_decode(n).v>>, !.errors = @ \o node_decode(n).errs]

\* value(): OnceCell::get_or_init, the node after the call
node_value(n) ==
    IF n.value # <<>> THEN n
    ELSE [n EXCEPT !.value = <<node_decode(n).v>>, !.errors = @ \o node_decode(n).errs]

ValidateResult(n) ==
    IF n.errors = <<>> THEN [ok |-> TRUE, errors |-> <<>>]
    ELSE [ok |-> FALSE, errors |-> n.errors]

\* validate_impl of Str, Float, Key and Integer: the node after the call and the
\* result
validate_impl(n) ==
    CASE n.kind \in {"Str", "Float"} ->
            [node |-> node_value(n), res |-> ValidateResult(node_value(n))]
      [] n.kind = "Key" ->
            IF ~n.is_valid THEN [node |-> n, res |-> [ok |-> FALSE, errors |-> n.errors]]
            ELSE [node |-> node_value(n), res |-> ValidateResult(node_value(n))]
      [] OTHER -> [node |-> n, res |-> ValidateResult(n)]

(***************************************************************************)
(* Nodes of a DOM under use: a cell of dom_nodes is a node with the count  *)
(* of the calls made on it, the count of the validate calls among them,    *)
(* the call made last and the result of the last validate call.            *)
(***************************************************************************)
SyntaxNode(kind, repr, text) ==
    [kind |-> kind, repr |-> repr, syntax |-> <<text>>, is_valid |-> TRUE,
     errors |-> <<>>, value |-> <<>>]

\* a key the DOM builder marked invalid: it carries the error that says so
InvalidKey(text) ==
    [kind |-> "Key", repr |-> None, syntax |-> <<text>>, is_valid |-> FALSE,
     errors |-> <<UnexpectedSyntax(text)>>, value |-> <<>>]

\* a node built from a value, without syntax: its cell is filled
ValueNode(kind, repr, v) ==
    [kind |-> kind, repr |-> repr, syntax |-> <<>>, is_valid |-> TRUE,
     errors |-> <<>>, value |-> <<v>>]

\* "a", "\q", "a", '\q' and 'a' as token texts
DQ_A == <<"\"", "a", "\"">>
DQ_BAD == <<"\"", "\\", "q", "\"">>
DQ_U0061 == <<"\"", "\\", "u", "0", "0", "6", "1", "\"">>
SQ_BAD == <<"'", "\\", "q", "'">>
SQ_U0061 == <<"'", "\\", "u", "0", "0", "6", "1", "'">>

StrShapes ==
    { SyntaxNode("Str", "Double", DQ_A),
      SyntaxNode("Str", "Double", DQ_BAD),
      SyntaxNode("Str", "Double", DQ_U0061),
      SyntaxNode("Str", "Single", SQ_BAD),
      SyntaxNode("Str", "Single", SQ_U0061),
      SyntaxNode("Str", "Backtick", <<BACKTICK, LF, "a", "\\", "q", BACKTICK>>),
      ValueNode("Str", "Double", <<"a">>) }

FloatShapes ==
    { SyntaxNode("Float", None, <<"1", "_", "0", ".", "5">>) }

KeyShapes ==
    { SyntaxNode("Key", None, <<"a">>),
      SyntaxNode("Key", None, DQ_BAD),
      SyntaxNode("Key", None, DQ_U0061),
      SyntaxNode("Key", None, SQ_BAD),
      SyntaxNode("Key", None, SQ_U0061),
      InvalidKey(<<"a">>),
      InvalidKey(DQ_BAD),
      ValueNode("Key", None, <<"a">>) }

\* 2^64 and the magnitude of i64::MIN - 1, in decimal
DEC_2_64 ==
    <<"1", "8", "4", "4", "6", "7", "4", "4", "0", "7",
      "3", "7", "0", "9", "5", "5", "1", "6", "1", "6">>
DEC_2_63_1 ==
    <<"9", "2", "2", "3", "3", "7", "2", "0", "3", "6",
      "8", "5", "4", "7", "7", "5", "8", "0", "9">>

IntegerShapes ==
    { SyntaxNode("Integer", "Dec", <<"0">>),
      SyntaxNode("Integer", "Dec", <<"1", "2">>),
      SyntaxNode("Integer", "Dec", <<"+", "1", "2">>),
      SyntaxNode("Integer", "Dec", <<"-", "1", "2">>),
      SyntaxNode("Integer", "Dec", <<"-", "0">>),
      SyntaxNode("Integer", "Dec", <<"1", "_", "0", "0">>),
      SyntaxNode("Integer", "Dec", <<"-", "1", "_", "0">>),
      SyntaxNode("Integer", "Dec", DEC_2_64),
      SyntaxNode("Integer", "Dec", <<"+">> \o DEC_2_64),
      SyntaxNode("Integer", "Dec", <<"-">> \o DEC_2_63_1),
      SyntaxNode("Integer", "Bin", <<"0", "b", "1", "0", "1">>),
      SyntaxNode("Integer", "Bin", <<"0", "b", "1", "_", "1">>),
      SyntaxNode("Integer", "Oct", <<"0", "o", "1", "7">>),
      SyntaxNode("Integer", "Hex", <<"0", "x", "f", "F">>),
      SyntaxNode("Integer", "Hex", <<"0", "x", "1", "_", "0">>),
      SyntaxNode("Integer", "Hex", <<"0", "x", "1">> \o [i \in 1..16 |-> "0"]),
      SyntaxNode("Integer", "Oct", <<"0", "o", "2">> \o [i \in 1..21 |-> "0"]),
      SyntaxNode("Integer", "Bin", <<"0", "b", "1">> \o [i \in 1..64 |-> "0"]),
      [kind |-> "Integer", repr |-> "Dec", syntax |-> <<>>, is_valid |-> TRUE,
       errors |-> <<>>, value |-> <<>>] }

NodeShapes == StrShapes \cup FloatShapes \cup KeyShapes \cup IntegerShapes

OkResult == [ok |-> TRUE, errors |-> <<>>]

DomNew ==
    /\ Len(dom_nodes) < MaxNodes
    /\ \E shape \in NodeShapes :
          dom_nodes' = Append(dom_nodes,
                              [node |-> shape, calls |-> 0, validations |-> 0,
                               last |-> "new", result |-> OkResult])
    /\ UNCHANGED <<entries_vars, serde_vars>>
    /\ UNCHANGED parser_vars
    /\ UNCHANGED lint_vars

\* node.value()
NodeValue ==
    /\ \E i \in DOMAIN dom_nodes :
          /\ dom_nodes[i].calls < MaxCalls
          /\ dom_nodes' = [dom_nodes EXCEPT
                              ![i] = [@ EXCEPT !.node = node_value(@),
                                               !.calls = @ + 1,
                                               !.last = "value"]]
    /\ UNCHANGED <<entries_vars, serde_vars>>
    /\ UNCHANGED parser_vars
    /\ UNCHANGED lint_vars

\* node.validate_node()
NodeValidate ==
    /\ \E i \in DOMAIN dom_nodes :
          /\ dom_nodes[i].calls < MaxCalls
          /\ dom_nodes' = [dom_nodes EXCEPT
                              ![i] = [node |-> validate_impl(@.node).node,
                                      calls |-> @.calls + 1,
                                      validations |-> @.validations + 1,
                                      last |-> "validate",
                                      result |-> validate_impl(@.node).res]]
    /\ UNCHANGED <<entries_vars, serde_vars>>
    /\ UNCHANGED parser_vars
    /\ UNCHANGED lint_vars

(***************************************************************************)
(* dom/serde.rs: Node to and from the data model of serde, over JSON       *)
(* values [t, ...]: null, bool, number, string, array (items) and object   *)
(* (entries, a sequence of [key, value] with distinct keys).               *)
(***************************************************************************)
\* no value yet: nothing was handed to deserialize, nothing was serialized
NoJson == [t |-> "none"]

JsonNull == [t |-> "null"]
JsonBool(v) == [t |-> "bool", v |-> v]
JsonNumber(v) == [t |-> "number", v |-> v]
JsonString(v) == [t |-> "string", v |-> v]
JsonArray(items) == [t |-> "array", items |-> items]
JsonObject(es) == [t |-> "object", entries |-> es]

DeOk(node) == [ok |-> TRUE, node |-> node]
\* Err(invalid_type(..)); there is no node
DeErr == [ok |-> FALSE, node |-> NoJson]

\* the sequences of at most n elements of the set
RECURSIVE SeqsUpTo(_, _)
SeqsUpTo(set, n) ==
    IF n <= 0 THEN {<<>>}
    ELSE SeqsUpTo(set, n - 1) \cup
         {Append(q, x) : q \in {y \in SeqsUpTo(set, n - 1) : Len(y) = n - 1}, x \in set}

RECURSIVE deserialize(_)
RECURSIVE visit_seq_loop(_, _)
RECURSIVE visit_map_loop(_, _)

\* a plausible slip: the loop breaks at the first element that fails
visit_seq_loop_until_error(items, seq) ==
    IF seq = <<>> THEN items
    ELSE LET r == deserialize(Head(seq))
         IN IF r.ok THEN visit_seq_loop(Append(items, r.node), Tail(seq)) ELSE items

\* visit_seq: next_element until Ok(None); an element that fails is passed over
visit_seq_loop(items, seq) ==
    IF seq = <<>> THEN items
    ELSE LET r == deserialize(Head(seq))
         IN visit_seq_loop(IF r.ok THEN Append(items, r.node) ELSE items, Tail(seq))

\* visit_map: next_entry until Ok(None); an entry that fails is passed over
visit_map_loop(es, map) ==
    IF map = <<>> THEN es
    ELSE LET r == deserialize(Head(map).value)
         IN visit_map_loop(
                IF r.ok
                THEN entries_add(es, Key(Len(es.all) + 1, TRUE, Head(map).key, TRUE), r.node)
                ELSE es,
                Tail(map))

\* Node::deserialize: deserialize_any with the JsonaVisitor
deserialize(v) ==
    CASE v.t = "null" -> DeErr
      [] v.t = "bool" -> DeOk([kind |-> "Bool", value |-> v.v])
      [] v.t = "number" -> DeOk([kind |-> "Number", repr |-> "Dec", value |-> v.v])
      [] v.t = "string" -> DeOk([kind |-> "String", repr |-> "Double", value |-> v.v])
      [] v.t = "array" ->
           DeOk([kind |-> "Array", errors |-> <<>>,
                 items |-> visit_seq_loop(<<>>, v.items)])
      [] OTHER ->
           DeOk([kind |-> "Object", errors |-> <<>>,
                 properties |-> visit_map_loop(EmptyEntries, v.entries)])

\* Node::serialize
RECURSIVE serialize(_)

serialize(n) ==
    CASE n.kind = "Object" ->
           JsonObject([i \in DOMAIN n.properties.all |->
                          [key |-> key_value(n.properties.all[i].key),
                           value |-> serialize(n.properties.all[i].node)]])
      [] n.kind = "Array" -> JsonArray([i \in DOMAIN n.items |-> serialize(n.items[i])])
      [] n.kind = "Bool" -> JsonBool(n.value)
      [] n.kind = "String" -> JsonString(n.value)
      [] n.kind = "Number" -> JsonNumber(n.value)
      [] OTHER -> JsonNull

JsonScalars ==
    {JsonNull, JsonBool(TRUE), JsonNumber(1), JsonNumber(-1), JsonString(<<"a">>)}

JsonKeys == {<<"a">>, <<"b">>}

DistinctKeys(es) == \A i, j \in DOMAIN es : i # j => es[i].key # es[j].key

\* the arrays and objects of at most MaxItems members taken from the set
JsonContainers(members) ==
    {JsonArray(q) : q \in SeqsUpTo(members, MaxItems)}
    \cup {JsonObject(q) :
            q \in {es \in SeqsUpTo([key : JsonKeys, value : members], MaxItems) :
                     DistinctKeys(es)}}

\* the members of the outer containers: the scalars and some containers
JsonInner ==
    JsonScalars \cup
    {JsonArray(<<>>), JsonArray(<<JsonNull>>), JsonArray(<<JsonNumber(1)>>),
     JsonObject(<<[key |-> <<"a">>, value |-> JsonNull]>>),
     JsonObject(<<[key |-> <<"a">>, value |-> JsonBool(TRUE)]>>)}

JsonValues == JsonScalars \cup JsonContainers(JsonInner)

\* serde_json::from_value::<Node>(v)
Deserialize ==
    /\ json = NoJson
    /\ \E v \in JsonValues :
          /\ json' = v
          /\ de' = deserialize(v)
    /\ UNCHANGED <<ser, doc>>
    /\ UNCHANGED <<entries_vars, node_vars>>
    /\ UNCHANGED parser_vars
    /\ UNCHANGED lint_vars

\* serde_json::to_value(&node)
Serialize ==
    /\ de.ok
    /\ ser = NoJson
    /\ ser' = serialize(de.node)
    /\ UNCHANGED <<json, de, doc>>
    /\ UNCHANGED <<entries_vars, node_vars>>
    /\ UNCHANGED parser_vars
    /\ UNCHANGED lint_vars

(***************************************************************************)
(* Nodes of a parsed document: any node may carry annotations, the keys of *)
(* an object come in every syntactic form and may repeat.                  *)
(***************************************************************************)
NoDoc == [kind |-> "none"]

NoAnnos == EmptyEntries

\* @tag("anno")
TagAnnos ==
    entries_add(EmptyEntries, Key(1, FALSE, <<"t", "a", "g">>, TRUE),
                [kind |-> "String", repr |-> "Double",
                 value |-> <<"a", "n", "n", "o">>, annos |-> EmptyEntries])

DocAnnos == {NoAnnos, TagAnnos}

DocScalars ==
    {[kind |-> "Null", annos |-> a] : a \in DocAnnos}
    \cup {[kind |-> "Bool", value |-> TRUE, annos |-> a] : a \in DocAnnos}
    \cup {[kind |-> "Number", repr |-> "Dec", value |-> 1, annos |-> a] : a \in DocAnnos}
    \cup {[kind |-> "String", repr |-> "Double", value |-> <<"a">>, annos |-> a] :
            a \in DocAnnos}

\* the keys a, b, "\u0061" and '\u0061'
DocKeyTexts == {<<"a">>, <<"b">>, DQ_U0061, SQ_U0061}

\* the members of an object: null, 1 @tag("anno"), "a" and []
DocMembers ==
    { [kind |-> "Null", annos |-> NoAnnos],
      [kind |-> "Number", repr |-> "Dec", value |-> 1, annos |-> TagAnnos],
      [kind |-> "String", repr |-> "Double", value |-> <<"a">>, annos |-> NoAnnos],
      [kind |-> "Array", items |-> <<>>, annos |-> NoAnnos] }

\* Entries::add for each entry of the sequence, in order
RECURSIVE EntriesOf(_)
EntriesOf(es) ==
    IF es = <<>> THEN EmptyEntries
    ELSE LET front == SubSeq(es, 1, Len(es) - 1)
             last == es[Len(es)]
         IN entries_add(EntriesOf(front), Key(Len(es), FALSE, last.key, TRUE), last.node)

DocNodes ==
    DocScalars
    \cup {[kind |-> "Array", items |-> q, annos |-> a] :
            q \in SeqsUpTo(DocScalars, MaxItems), a \in DocAnnos}
    \cup {[kind |-> "Object", properties |-> EntriesOf(q), annos |-> a] :
            q \in SeqsUpTo([key : DocKeyTexts, node : DocMembers], MaxItems),
            a \in DocAnnos}

\* serde_json::to_value(&node) for a node of a document
SerializeDoc ==
    /\ doc = NoDoc
    /\ \E n \in DocNodes :
          /\ doc' = n
          /\ ser' = serialize(n)
    /\ UNCHANGED <<json, de>>
    /\ UNCHANGED <<entries_vars, node_vars>>
    /\ UNCHANGED parser_vars
    /\ UNCHANGED lint_vars

(***************************************************************************)
(* jsona-cli, commands/lint.rs: lint_files and lint_file.  A step is the   *)
(* code between two awaits; what the environment, the parser, the DOM and  *)
(* the schema store answer is an input of the step.                        *)
(***************************************************************************)
NoLint ==
    [pc |-> "idle", files |-> 0, file |-> 0, result |-> None,
     stages |-> <<>>, loaded |-> FALSE, syntax_errors |-> 0, valid |-> None,
     schema |-> None, file_result |-> None, outcomes |-> <<>>, returned |-> None]

\* lint_file has returned r
lint_file_returns(l, r) == [l EXCEPT !.pc = "file_done", !.file_result = r]

\* a plausible slip: a file that passes resets the result
lint_files_last_result(result, file_result) ==
    IF file_result # Ok THEN Err ELSE Ok

\* the body of the loop of lint_files: the result after a file
lint_files_result(result, file_result) ==
    IF file_result # Ok THEN Err ELSE result

\* a plausible slip: the syntax errors are printed and the file goes on
after_parse_goes_on(l, n, printed) ==
    IF ~printed THEN lint_file_returns(l, "print failed")
    ELSE [l EXCEPT !.pc = "validate"]

\* lint_file after parser::parse gave n errors and print_parse_errors returned
after_parse(l, n, printed) ==
    IF ~printed THEN lint_file_returns(l, "print failed")
    ELSE IF n # 0 THEN lint_file_returns(l, "syntax errors found")
    ELSE [l EXCEPT !.pc = "validate"]

\* lint_files: let mut result = Ok(()), and the loop is entered
LintFiles ==
    /\ lint.pc = "idle"
    /\ \E n \in 1..MaxFiles :
          lint' = [lint EXCEPT !.pc = "load", !.files = n, !.file = 1, !.result = Ok]
    /\ UNCHANGED <<parser_vars, entries_vars, node_vars, serde_vars>>

\* lint_file: load_file(file_path)
LoadFile ==
    /\ lint.pc = "load"
    /\ \E read \in BOOLEAN :
          LET l == [lint EXCEPT !.stages = <<"load">>, !.loaded = read,
                                !.syntax_errors = 0, !.valid = None, !.schema = None,
                                !.file_result = None]
          IN lint' = IF read THEN [l EXCEPT !.pc = "parse"]
                     ELSE lint_file_returns(l, "failed to read")
    /\ UNCHANGED <<parser_vars, entries_vars, node_vars, serde_vars>>

\* lint_file: parser::parse, print_parse_errors, the test of parse.errors
ParseSource ==
    /\ lint.pc = "parse"
    /\ \E n \in 0..MaxSyntaxErrors, printed \in BOOLEAN :
          lint' = after_parse([lint EXCEPT !.stages = Append(@, "parse"),
                                           !.syntax_errors = n], n, printed)
    /\ UNCHANGED <<parser_vars, entries_vars, node_vars, serde_vars>>

\* lint_file: into_dom, dom.validate(), print_semantic_errors
ValidateDom ==
    /\ lint.pc = "validate"
    /\ \E valid \in BOOLEAN, printed \in BOOLEAN :
          LET l == [lint EXCEPT !.stages = Append(@, "validate"),
                                !.valid = IF valid THEN Ok ELSE Err]
          IN lint' = IF valid THEN [l EXCEPT !.pc = "schema"]
                     ELSE IF ~printed THEN lint_file_returns(l, "print failed")
                     ELSE lint_file_returns(l, "semantic errors found")
    /\ UNCHANGED <<parser_vars, entries_vars, node_vars, serde_vars>>

\* lint_file: add_from_document, query_for, schemas.validate,
\* print_schema_errors
ValidateSchema ==
    /\ lint.pc = "schema"
    /\ \E association \in BOOLEAN, answer \in {"Valid", "Errors", "Failed"},
          printed \in BOOLEAN :
          LET l == [lint EXCEPT !.stages = Append(@, "associate")]
              v == [l EXCEPT !.stages = Append(@, "schema"), !.schema = answer]
          IN lint' = IF ~association
                     THEN lint_file_returns([l EXCEPT !.schema = "NoAssociation"], Ok)
                     ELSE IF answer = "Failed"
                     THEN lint_file_returns(v, "schema validation did not run")
                     ELSE IF answer = "Errors"
                     THEN IF ~printed THEN lint_file_returns(v, "print failed")
                          ELSE lint_file_returns(v, "schema validation failed")
                     ELSE lint_file_returns(v, Ok)
    /\ UNCHANGED <<parser_vars, entries_vars, node_vars, serde_vars>>

\* lint_files: the rest of the loop's body, and the return after the last file
FileDone ==
    /\ lint.pc = "file_done"
    /\ LET result == lint_files_result(lint.result, lint.file_result)
           l == [lint EXCEPT !.result = result,
                             !.outcomes = Append(@, lint.file_result)]
       IN lint' = IF lint.file < lint.files
                  THEN [l EXCEPT !.pc = "load", !.file = @ + 1]
                  ELSE [l EXCEPT !.pc = "returned", !.returned = result]
    /\ UNCHANGED <<parser_vars, entries_vars, node_vars, serde_vars>>

(***************************************************************************)
(* The parser as a whole: Parser::new(source).parse()                      *)
(***************************************************************************)
NoError == Error(TextRange(-1, -1), None)

Init ==
    /\ src = <<>>
    /\ lexer = [span |-> TextRange(0, 0), slice |-> <<>>, done |-> FALSE]
    /\ current_token = None
    /\ builder = [parents |-> <<>>, children |-> <<>>]
    /\ errors = <<>>
    /\ last_dropped = NoError
    /\ stack = <<Frame("parse", None)>>
    /\ ret = None
    /\ status = "running"
    /\ green_node = NoNode
    /\ entries = EmptyEntries
    /\ obj_errors = <<>>
    /\ annos = EmptyEntries
    /\ dom_nodes = <<>>
    /\ json = NoJson
    /\ de = DeErr
    /\ ser = NoJson
    /\ doc = NoDoc
    /\ lint = NoLint

Next ==
    \/ parse
    \/ parse_finish
    \/ parse_root
    \/ parse_root_value
    \/ parse_root_eof
    \/ parse_annos
    \/ parse_annos_loop
    \/ parse_annos_entry_done
    \/ parse_anno_entry
    \/ parse_anno_entry_key_done
    \/ parse_anno_entry_value_done
    \/ parse_anno_value
    \/ parse_anno_value_done
    \/ parse_entry
    \/ parse_entry_key_done
    \/ parse_entry_value_done
    \/ parse_key
    \/ parse_value
    \/ parse_value_node_done
    \/ parse_value_with_annos
    \/ parse_value_with_annos_comma
    \/ parse_value_with_annos_end
    \/ parse_object
    \/ parse_object_annos_done
    \/ parse_object_loop
    \/ parse_object_at_done
    \/ parse_object_entry_done
    \/ parse_array
    \/ parse_array_annos_done
    \/ parse_array_loop
    \/ parse_array_at_done
    \/ parse_array_value_done

Spec == Init /\ [][Next]_vars

NextDom ==
    \/ ObjectAddEntry
    \/ EntriesAdd
    \/ EntriesFromIter

SpecDom == Init /\ [][NextDom]_vars

NextSerialize == SerializeDoc

SpecSerialize == Init /\ [][NextSerialize]_vars

NextLint ==
    \/ LintFiles
    \/ LoadFile
    \/ ParseSource
    \/ ValidateDom
    \/ ValidateSchema
    \/ FileDone

SpecLint == Init /\ [][NextLint]_vars

NextKeys == ObjectAddSyntaxKey

SpecKeys == Init /\ [][NextKeys]_vars

NextNodes ==
    \/ DomNew
    \/ NodeValue
    \/ NodeValidate

SpecNodes == Init /\ [][NextNodes]_vars

NextSerde ==
    \/ Deserialize
    \/ Serialize

SpecSerde == Init /\ [][NextSerde]_vars

(***************************************************************************)
(* Properties of the parser.                                               *)
(***************************************************************************)
SourceText == Concat([i \in 1..Len(src) |-> src[i].text])

\* C1: parse(source) terminates: every iteration of the element loops of
\* parse_object and parse_array moves the lexer on, also when parse_key rejects
\* the current token, so no loop starts an iteration with the lexer where the
\* iteration before found it.
C1_ParseTerminates ==
    \A i \in DOMAIN stack : stack[i].spin = 0

\* C2: loss-freedom: the texts of the tokens of the returned tree, in document
\* order, make up exactly the source that was scanned.
C2_LossFree ==
    status = "returned" => Concat(TokenTexts(green_node)) = SourceText

\* C3: the node returned as Parse.green_node has kind ROOT.
C3_RootKind ==
    status = "returned" => green_node.kind = "ROOT"

\* C4: Parse.errors is ordered by the start of the ranges.
C4_ErrorsOrdered ==
    \A i, j \in DOMAIN errors :
        i < j => errors[i].range.start <= errors[j].range.start

NoAdjacentDuplicates ==
    \A i \in 1..(Len(errors) - 1) : errors[i].range # errors[i + 1].range

\* C5: no two adjacent errors have the same range; an error whose range equals
\* that of the last recorded one is dropped, and the recorded ones stay as they
\* are (the list only grows at its end, the range of a dropped error is on it).
C5_AdjacentDeduplication ==
    /\ [](NoAdjacentDuplicates
          /\ (last_dropped # NoError =>
                 \E i \in DOMAIN errors : errors[i].range = last_dropped.range))
    /\ [][IsPrefix(errors, errors')]_vars

\* an error was dropped for having the range of the last recorded one
C5_Witness ==
    /\ last_dropped # NoError
    /\ Len(errors) > 0
    /\ errors[Len(errors)].range = last_dropped.range
    /\ errors[Len(errors)].message # last_dropped.message

\* C6: Parse.errors holds no two errors, adjacent or not, with the same range.
C6_NoDuplicateRanges ==
    \A i, j \in DOMAIN errors : i < j => errors[i].range # errors[j].range

(***************************************************************************)
(* Properties of Entries and Object.                                       *)
(***************************************************************************)
\* the entries of all before the i-th whose key equals the key of the i-th
Earlier(all, i) == {j \in 1..(i - 1) : key_eq(all[j].key, all[i].key)}

First(all, i) == CHOOSE j \in Earlier(all, i) : \A k \in Earlier(all, i) : j <= k

\* C7: when several entries were added with the same key, Object.get with that
\* key returns the value of the first of them.
C7_GetReturnsFirst ==
    \A i \in DOMAIN entries.all :
        Earlier(entries.all, i) # {} =>
            object_get(entries, entries.all[i].key)
                = {entries.all[First(entries.all, i)].node}

\* the ConflictingKeys errors that the entries of all call for, in order
RECURSIVE Conflicts(_, _)
Conflicts(all, n) ==
    IF n = 0 THEN <<>>
    ELSE IF Earlier(all, n) = {} THEN Conflicts(all, n - 1)
    ELSE Append(Conflicts(all, n - 1),
                ConflictingKeys(all[n].key, all[First(all, n)].key))

\* C8: add_entry records exactly one ConflictingKeys error for each entry whose
\* key equals the key of an earlier entry, with the new key as key and the key
\* of the first occurrence as other, and appends the entry to all in every case.
C8_ConflictingKeys ==
    /\ [](obj_errors = Conflicts(entries.all, Len(entries.all)))
    /\ [][(entries' # entries \/ obj_errors' # obj_errors) =>
            /\ Len(entries'.all) = Len(entries.all) + 1
            /\ IsPrefix(entries.all, entries'.all)]_vars

\* three entries with the same key were added: three entries, two errors
C8_Witness ==
    /\ Len(entries.all) = 3
    /\ Len(obj_errors) = 2
    /\ obj_errors[2].other.id = 1
    /\ obj_errors[2].key.id = 3

Containers == {entries, annos}

\* C9 as stated: every key of all is found in lookup.
C9_EveryKeyFound ==
    \A e \in Containers : \A i \in DOMAIN e.all :
        map_get(e.lookup, e.all[i].key) # {}

\* C9: all lists the entries in insertion order (it only grows at its end, the
\* i-th entry is the i-th one added); the keys stored in lookup are exactly the
\* keys of all that equal no earlier key of all, so lookup is never larger than
\* all; every valid key of all is found in lookup, and no invalid one is.
C9_EntriesConsistent ==
    /\ [](\A e \in Containers :
            /\ \A i \in DOMAIN e.all : e.all[i].key.id = i
            /\ {slot.key : slot \in e.lookup}
                 = {e.all[i].key : i \in {j \in DOMAIN e.all : Earlier(e.all, j) = {}}}
            /\ Cardinality(e.lookup) <= Len(e.all)
            /\ \A i \in DOMAIN e.all :
                 e.all[i].key.is_valid <=> map_get(e.lookup, e.all[i].key) # {})
    /\ [][IsPrefix(entries.all, entries'.all) /\ IsPrefix(annos.all, annos'.all)]_vars

\* a container holds a repeated valid key and an invalid key
C9_Witness ==
    \E e \in Containers :
        /\ \E i \in DOMAIN e.all : Earlier(e.all, i) # {}
        /\ \E i \in DOMAIN e.all : ~e.all[i].key.is_valid
        /\ Cardinality(e.lookup) < Len(e.all)

AllKeys == UNION {{e.all[i].key : i \in DOMAIN e.all} : e \in Containers}

EscapeErrors(n) ==
    {i \in DOMAIN n.errors : n.errors[i].kind = "InvalidEscapeSequence"}

\* the content of the quoted token of n has a malformed escape
Malformed(n) ==
    /\ n.syntax # <<>>
    /\ \/ n.kind = "Str" /\ n.repr = "Double"
          /\ ~unescape(strip_suffix(strip_prefix(n.syntax[1], "\""), "\"")).ok
       \/ n.kind = "Str" /\ n.repr = "Single"
          /\ ~unescape(strip_suffix(strip_prefix(n.syntax[1], "'"), "'")).ok
       \/ n.kind = "Key" /\ starts_with(n.syntax[1], <<"\"">>)
          /\ ~unescape(strip_suffix(strip_prefix(n.syntax[1], "\""), "\"")).ok

\* C11: validate is idempotent: validating a node again gives the result of the
\* validation before and leaves the node as it is (its value cell was filled by
\* the first call, so nothing is appended to its deferred errors); a string with
\* a malformed escape has exactly one InvalidEscapeSequence error once its value
\* was forced, however often value() or validate was called.
C11_ValidateIdempotent ==
    /\ [](\A i \in DOMAIN dom_nodes :
            LET n == dom_nodes[i].node
                r == validate_impl(n)
            IN /\ validate_impl(r.node) = r
               /\ Cardinality(EscapeErrors(n)) <= 1
               /\ (n.value # <<>> /\ Malformed(n)) => Cardinality(EscapeErrors(n)) = 1
               /\ (dom_nodes[i].validations > 0 /\ n.is_valid) =>
                     r.res = dom_nodes[i].result)
    /\ [][\A i \in DOMAIN dom_nodes :
            (dom_nodes[i].validations > 0 /\ dom_nodes'[i].validations > dom_nodes[i].validations)
                => dom_nodes'[i].node = dom_nodes[i].node]_vars

\* a string with a malformed escape was validated twice, after its value was read
C11_Witness ==
    \E i \in DOMAIN dom_nodes :
        /\ dom_nodes[i].node.kind = "Str"
        /\ Malformed(dom_nodes[i].node)
        /\ dom_nodes[i].validations = 2
        /\ dom_nodes[i].calls = 3
        /\ dom_nodes[i].result.errors = <<InvalidEscapeSequence(dom_nodes[i].node.syntax[1])>>

(***************************************************************************)
(* Properties of the serde implementation.                                 *)
(***************************************************************************)
\* C12: JSON round trip: deserializing a JSON value into a Node succeeds, and
\* serializing that Node gives the JSON value back.
C12_JsonRoundTrip ==
    /\ json # NoJson => de.ok
    /\ ser # NoJson => ser = json

\* the digit values of k in the radix, most significant first
RECURSIVE DigitsOf(_, _)
DigitsOf(k, radix) ==
    IF k < radix THEN <<k>> ELSE Append(DigitsOf(k \div radix, radix), k % radix)

\* the digit values a literal writes: sign, radix prefix, underscores and
\* leading zeros aside
LiteralDigits(text, repr) ==
    LET unsigned == IF starts_with(text, <<"+">>) \/ starts_with(text, <<"-">>)
                    THEN Tail(text) ELSE text
        body == IF repr # "Dec" /\ starts_with(unsigned, RadixPrefix(repr))
                THEN SubSeq(unsigned, 3, Len(unsigned)) ELSE unsigned
        ds == trim_zeros(remove_underscores(body))
    IN [i \in DOMAIN ds |-> DigitValue(ds[i])]

\* the digits of the literal, as written
LiteralChars(text, repr) ==
    LET unsigned == IF starts_with(text, <<"+">>) \/ starts_with(text, <<"-">>)
                    THEN Tail(text) ELSE text
        body == IF repr # "Dec" /\ starts_with(unsigned, RadixPrefix(repr))
                THEN SubSeq(unsigned, 3, Len(unsigned)) ELSE unsigned
    IN trim_zeros(remove_underscores(body))

IsNegative(n) == n.repr = "Dec" /\ starts_with(n.syntax[1], <<"-">>)

\* the literal of the node is within u64, or within i64 when it is negative
Fits(n) ==
    ~digits_above(LiteralChars(n.syntax[1], n.repr),
                  IF IsNegative(n) THEN I64MinDigits ELSE U64MaxDigits(Radix(n.repr)))

DecodedIntegers ==
    {dom_nodes[i].node : i \in {j \in DOMAIN dom_nodes :
        /\ dom_nodes[j].node.kind = "Integer"
        /\ dom_nodes[j].node.syntax # <<>>
        /\ dom_nodes[j].node.value # <<>>}}

SignKept(n) ==
    /\ n.value[1].variant = (IF IsNegative(n) THEN "Negative" ELSE "Positive")
    /\ IF IsNegative(n) THEN n.value[1].n <= 0 ELSE n.value[1].n >= 0

ValueKept(n) ==
    DigitsOf(IF IsNegative(n) THEN 0 - n.value[1].n ELSE n.value[1].n, Radix(n.repr))
        = LiteralDigits(n.syntax[1], n.repr)

\* C13 as stated: the value of a syntax-backed Integer node is Negative(n)
\* exactly when the node is decimal and its text starts with '-', and Positive(n)
\* otherwise; n is the value of the literal, whatever its size.
C13_IntegerDecodingAnySize ==
    \A n \in DecodedIntegers : SignKept(n) /\ ValueKept(n)

\* C13: integer decoding preserves sign and radix: the value of a syntax-backed
\* Integer node is Negative(n) exactly when the node is decimal and its text
\* starts with '-', and Positive(n) otherwise; when the literal fits the type of
\* the variant, n is its value, underscores and radix prefix removed, read in the
\* radix of the node; when it does not fit, n is 0.
C13_IntegerDecoding ==
    \A n \in DecodedIntegers :
        /\ SignKept(n)
        /\ IF Fits(n) THEN ValueKept(n) ELSE n.value[1].n = 0

\* -1_0 was decoded to Negative(-10) and 0x1_0 to Positive(16)
C13_Witness ==
    \E n \in DecodedIntegers :
        \/ /\ n.syntax[1] = <<"-", "1", "_", "0">>
           /\ n.value[1] = IntegerValue("Negative", 0 - 10)
        \/ /\ n.syntax[1] = <<"0", "x", "1", "_", "0">>
           /\ n.value[1] = IntegerValue("Positive", 16)

(***************************************************************************)
(* Properties of the parser: numbers, keys, annotations, empty inputs.     *)
(***************************************************************************)
\* the tokens of a tree with their kinds, in document order
RECURSIVE Leaves(_)
Leaves(e) ==
    IF IsNode(e)
    THEN Concat([i \in 1..Len(e.children) |-> Leaves(e.children[i])])
    ELSE <<e>>

Messages == {errors[i].message : i \in DOMAIN errors}

\* the parser returned from the input z: it scanned all of z and met its end,
\* or gave up after a part of it
Parsed(z) ==
    /\ status = "returned"
    /\ IsPrefix(src, z)
    /\ lexer.done => src = z

\* a text without its sign
Unsigned(s) == IF s # <<>> /\ s[1] \in {"+", "-"} THEN Tail(s) ELSE s

\* the characters of s before the first one of the set
RECURSIVE Before(_, _)
Before(s, stops) ==
    IF s = <<>> \/ Head(s) \in stops THEN <<>>
    ELSE <<Head(s)>> \o Before(Tail(s), stops)

\* the integer part of a decimal number token
IntegerPart(t) == IF t.kind = "INTEGER" THEN t.text ELSE Before(t.text, {".", "e"})

\* after the sign, it starts with 0 and is longer than the digit 0
Padded(t) ==
    LET u == Unsigned(IntegerPart(t))
    IN Len(u) > 1 /\ u[1] = "0"

ZeroPaddedMessage(t) ==
    IF t.kind = "INTEGER" THEN "zero-padded integers are not allowed"
    ELSE "zero-padded numbers are not allowed"

\* the one token of the input is in the tree, with the kind k
EmittedAs(t, k) == Leaves(green_node) = <<Tok(k, t.text)>>

\* C14: zero-padding in value position: a decimal INTEGER token, or the
\* integer part of a FLOAT token, is rejected exactly when, after an optional
\* sign, it starts with 0 and is longer than the digit 0; the rejection records
\* one error with the message of the kind and puts the token in the tree with
\* the kind ERROR; a token that is not zero-padded gets no such error, and is
\* in the tree with its own kind when it has no underscore.
C14_ZeroPadding ==
    (status = "returned" /\ Len(src) = 1 /\ src[1].kind \in {"INTEGER", "FLOAT"}) =>
        LET t == src[1]
        IN  IF Padded(t)
            THEN /\ errors = <<Error(TextRange(0, ByteLenOf(t.text)), ZeroPaddedMessage(t))>>
                 /\ EmittedAs(t, "ERROR")
            ELSE /\ Messages \cap {"zero-padded integers are not allowed",
                                     "zero-padded numbers are not allowed"} = {}
                 /\ ~contains(t.text, "_") => errors = <<>> /\ EmittedAs(t, t.kind)

\* -01 and 00.5 were rejected, +0 and 0.5 accepted
C14_Witness ==
    \E t \in {Tok("INTEGER", <<"-", "0", "1">>), Tok("FLOAT", <<"0", "0", ".", "5">>)} :
        /\ Parsed(<<t>>)
        /\ Len(errors) = 1
        /\ EmittedAs(t, "ERROR")

\* the radix parse_value hands to parse_radix_integer for a token of the kind
TokenRadix(kind) ==
    CASE kind = "INTEGER_BIN" -> 2
      [] kind = "INTEGER_OCT" -> 8
      [] kind = "INTEGER_HEX" -> 16
      [] OTHER -> 10

NumberKinds == {"INTEGER", "INTEGER_BIN", "INTEGER_OCT", "INTEGER_HEX", "FLOAT"}

\* no underscore leads or ends s, and each one stands between two digits of the radix
UnderscoresBetweenDigits(s, radix) ==
    /\ s[1] # "_"
    /\ s[Len(s)] # "_"
    /\ \A i \in DOMAIN s :
          s[i] = "_" =>
              /\ i > 1 /\ is_digit(s[i - 1], radix)
              /\ i < Len(s) /\ is_digit(s[i + 1], radix)

RECURSIVE Descendants(_)
Descendants(e) ==
    IF IsNode(e)
    THEN {e} \cup UNION {Descendants(e.children[i]) : i \in DOMAIN e.children}
    ELSE {e}

\* the nodes the builder has finished, and what is in them
Built ==
    UNION {Descendants(builder.children[i]) : i \in DOMAIN builder.children}
    \cup Descendants(green_node)

NodesOfKind(kind) == {e \in Built : IsNode(e) /\ e.kind = kind}

\* the tokens that are children of a KEY node
KeyLeaves ==
    UNION {{e.children[i] : i \in DOMAIN e.children} : e \in NodesOfKind("KEY")}

\* an IDENT, null, a boolean, an unsigned integer of any radix, a float with no
\* leading 0 and no leading +, a string in single or double quotes
KeyAccepted(k) ==
    \/ k.kind \in {"IDENT", "NULL", "BOOL", "INTEGER_HEX", "INTEGER_BIN", "INTEGER_OCT",
                   "DOUBLE_QUOTE", "SINGLE_QUOTE"}
    \/ k.kind = "INTEGER" /\ k.text[1] \notin {"+", "-"}
    \/ k.kind = "FLOAT" /\ k.text[1] \notin {"0", "+"}

\* a decimal integer with a sign
SignedInteger(k) == k.kind = "INTEGER" /\ k.text[1] \in {"+", "-"}

\* a float with a leading +
PlusFloat(k) == k.kind = "FLOAT" /\ k.text[1] = "+"

\* the key k of {k:1} is taken, without an error, and is in the KEY node with its kind
KeyTaken(k) == Parsed(KeyDoc(k)) => errors = <<>> /\ k \in KeyLeaves

\* C16: parse_key accepts as a key an IDENT, null, a boolean, an unsigned
\* integer of any radix, a float with no leading 0 and no leading +, and a
\* quoted string; a decimal integer with a sign + or - and a float with a
\* leading + are rejected: no KEY node holds them with their own kind.
C16_KeyAcceptance ==
    \A k \in KeyTokens :
        /\ KeyAccepted(k) => KeyTaken(k)
        /\ (SignedInteger(k) \/ PlusFloat(k)) => k \notin KeyLeaves

\* C17: an array that follows 'array = [ annos? (vwa (, vwa)* ,?)? ]' with
\* 'vwa = value annos?', and an object that follows the matching rule, parses
\* with no syntax error: so do an element followed by its annotations, a comma
\* and a further element ([1 @a, 2] and {a: 1 @a, b: 2}), and a trailing comma.
C17_GrammarAccepted ==
    \A z \in GrammarSeeds : Parsed(z) => errors = <<>>

\* the ANNOS nodes of the returned tree
AnnosNodes == {e \in Descendants(green_node) : IsNode(e) /\ e.kind = "ANNOS"}

\* C18: a document whose root value is followed by annotations, as
\* 1 @a("a") @b, parses with no syntax error, and the annotations are in the
\* tree, in an ANNOS node under ROOT.
C18_RootAnnotations ==
    \A z \in {ROOT_ANNOS, ROOT_ANNO} :
        Parsed(z) =>
            /\ errors = <<>>
            /\ green_node.kind = "ROOT"
            /\ \E e \in AnnosNodes : IDENT_A \in Descendants(e)

Children(e) == {e.children[i] : i \in DOMAIN e.children}

\* the items of the array of the returned tree: the VALUE children of ARRAY
Items ==
    UNION {{v \in Children(e) : IsNode(v) /\ v.kind = "VALUE"} :
              e \in {a \in Descendants(green_node) : IsNode(a) /\ a.kind = "ARRAY"}}

\* C19: for [1, 2, @a(true) 3] the parse records no syntax error, the array
\* has three items, and the annotation written between the comma and 3 belongs
\* to the item 3: the ANNOS node is a child of the VALUE node that holds 3, not
\* of the VALUE node that holds 2.
C19_AnnotationsBeforeItem ==
    Parsed(ARRAY_TAG) =>
        /\ errors = <<>>
        /\ Cardinality(Items) = 3
        /\ \A v \in Items :
              (\E e \in Children(v) : IsNode(e) /\ e.kind = "ANNOS") =>
                  INTEGER_3 \in Children(v) /\ INTEGER_2 \notin Children(v)

\* the inputs of blanks, newlines and comments, the empty one among them
TriviaOnly ==
    /\ \A i \in DOMAIN src : src[i].kind \in {"WHITESPACE", "NEWLINE", "COMMENT_LINE", "COMMENT_BLOCK"}
    /\ lexer.done

\* C20: for the empty input, and for an input of whitespace, newlines and
\* well-formed comments only, Parse.errors holds exactly one error, with the
\* message 'unexpected EOF'; the tree has its ROOT and holds every token of
\* the input.
C20_EmptyInput ==
    (status = "returned" /\ TriviaOnly) =>
        /\ Len(errors) = 1
        /\ errors[1].message = "unexpected EOF"
        /\ green_node.kind = "ROOT"
        /\ Leaves(green_node) = src

\* an input of a blank, two comments and a newline was parsed
C20_Witness ==
    /\ status = "returned"
    /\ TriviaOnly
    /\ src = <<WHITESPACE, COMMENT_LINE, NEWLINE, COMMENT_BLOCK>>
    /\ Messages = {"unexpected EOF"}

(***************************************************************************)
(* Properties of the scalar nodes: escapes.                                *)
(***************************************************************************)
\* a Str in double or single quotes, or a key in double or single quotes,
\* built from a token
Quoted(n) ==
    /\ n.syntax # <<>>
    /\ n.is_valid
    /\ \/ n.kind = "Str" /\ n.repr \in {"Double", "Single"}
       \/ n.kind = "Key" /\ n.syntax[1][1] \in {"\"", "'"}

\* the text of the token between its quotes
Content(n) == SubSeq(n.syntax[1], 2, Len(n.syntax[1]) - 1)

\* the value of n was forced and is what the escapes of its content say: the
\* empty string and one InvalidEscapeSequence with the syntax of n, which fails
\* the validation, when an escape is malformed, and the unescaped content and
\* no error otherwise
EscapesDecoded(n) ==
    n.value # <<>> =>
        LET u == unescape(Content(n))
        IN IF ~u.ok
           THEN /\ n.value = << <<>> >>
                /\ n.errors = <<InvalidEscapeSequence(n.syntax[1])>>
                /\ ~validate_impl(n).res.ok
           ELSE /\ n.value = <<u.value>>
                /\ n.errors = <<>>

\* C21: an unescape failure is a deferred error: for a Str in double or single
\* quotes and for a key in double or single quotes whose content has a
\* malformed escape, value() gives the empty string and appends one
\* InvalidEscapeSequence with the syntax of the node to its errors, so that its
\* validation fails; for a content with valid escapes only, value() is the
\* unescaped content and no error is appended.
C21_UnescapeDeferred ==
    \A i \in DOMAIN dom_nodes :
        Quoted(dom_nodes[i].node) => EscapesDecoded(dom_nodes[i].node)

(***************************************************************************)
(* Properties of the parser: missing commas, ranges, the builder.          *)
(***************************************************************************)
\* the tokens the builder holds, in document order
BuilderLeaves == Concat([i \in DOMAIN builder.children |-> Leaves(builder.children[i])])

\* the range of the token the builder took last
LastLeafRange ==
    LET ls == BuilderLeaves
        end == ByteLenOf(Concat([i \in DOMAIN ls |-> ls[i].text]))
    IN TextRange(end - ByteLenOf(ls[Len(ls)].text), end)

\* parse_value_with_annos has its value, with the input not at its end, and then
\* the annotations after it
ValueParsed == At("parse_value_with_annos", "comma") /\ ret # Err /\ ~lexer.done
AnnosParsed == At("parse_value_with_annos", "end") /\ ret # Err

MissingComma == "expect \",\""

\* the last error recorded has the range of the last token of the value
SameRangeRecorded == errors # <<>> /\ errors[Len(errors)].range = Top.span

\* C22 as stated: a missing comma: when a value of an array or object, with
\* the annotations taken after it, is followed by a token that is neither a
\* comma nor the closing delimiter of the container, exactly one error
\* 'expect ","' is recorded, with the range of the last token of the value,
\* whatever was recorded before, and the parser goes on; no such error is
\* recorded when a comma was consumed or the closing delimiter follows.
C22_MissingCommaAlways ==
    /\ [](Parsed(ARRAY_NO_COMMAS) => Cardinality(Items) = 3)
    /\ [][/\ ValueParsed => stack'[Len(stack)].span = LastLeafRange
          /\ (AnnosParsed /\ current_token' # None) =>
                IF ~Top.is_comma /\ current_token' \notin {"COMMA", Top.kind}
                THEN errors' = Append(errors, Error(Top.span, MissingComma)) /\ ret' = Ok
                ELSE (Top.is_comma \/ current_token' = Top.kind) =>
                        errors' = errors /\ ret' = Ok]_vars

\* C22: a missing comma: when a value of an array or object, with the
\* annotations taken after it, is followed by a token that is neither a comma
\* nor the closing delimiter of the container, exactly one error 'expect ","'
\* is recorded, with the range of the last token of the value, unless the last
\* error recorded has that range, and then none is; the parser goes on, so
\* that the values that follow are items of the same container; no such error
\* is recorded when a comma was consumed or the closing delimiter follows.
C22_MissingComma ==
    /\ [](Parsed(ARRAY_NO_COMMAS) => Cardinality(Items) = 3)
    /\ [](Parsed(ARRAY_OBJECTS_NO_COMMA) => Cardinality(Items) = 2)
    /\ [][/\ ValueParsed => stack'[Len(stack)].span = LastLeafRange
          /\ (AnnosParsed /\ current_token' # None) =>
                IF ~Top.is_comma /\ current_token' \notin {"COMMA", Top.kind}
                THEN /\ errors' = IF SameRangeRecorded THEN errors
                                  ELSE Append(errors, Error(Top.span, MissingComma))
                     /\ ret' = Ok
                ELSE (Top.is_comma \/ current_token' = Top.kind) =>
                        errors' = errors /\ ret' = Ok]_vars

\* [1 2 3] was parsed: two errors, on 1 and on 2, and three items
C22_Witness ==
    /\ Parsed(ARRAY_NO_COMMAS)
    /\ errors = <<Error(TextRange(1, 2), MissingComma), Error(TextRange(3, 4), MissingComma)>>
    /\ Cardinality(Items) = 3

(***************************************************************************)
(* Properties of keys in their syntactic forms.                            *)
(***************************************************************************)
\* the string a key of the source denotes: the unescaped content of a quoted
\* key, the text of another one
Denotes(k) ==
    IF k.text[1] \in {"\"", "'"}
    THEN unescape(SubSeq(k.text, 2, Len(k.text) - 1)).value
    ELSE k.text

\* C23: two keys of an object conflict whenever they denote the same string,
\* whatever their syntactic form: an identifier or integer literal, a key in
\* double quotes and a key in single quotes with the same unescaped value are
\* equal keys, and the later of two such entries gets a ConflictingKeys error
\* (so {a: 1, "a": 2} and {'\u0061': 1, "a": 2} give one error each).
C23_KeysConflictByValue ==
    \A i, j \in DOMAIN entries.all :
        (i < j /\ Denotes(entries.all[i].key) = Denotes(entries.all[j].key)) =>
            /\ key_eq(entries.all[i].key, entries.all[j].key)
            /\ \E e \in DOMAIN obj_errors : obj_errors[e].key.id = j

(***************************************************************************)
(* Properties of the JSON serialization.                                   *)
(***************************************************************************)
\* the JSON value j is what the node n is to give: a map entry for each element
\* of all, in order, under the string its key denotes; an element for each item, in
\* order; the value of a scalar; null for Null
RECURSIVE Emits(_, _)
Emits(n, j) ==
    CASE n.kind = "Object" ->
           /\ j.t = "object"
           /\ Len(j.entries) = Len(n.properties.all)
           /\ \A i \in DOMAIN n.properties.all :
                 /\ j.entries[i].key = Denotes(n.properties.all[i].key)
                 /\ Emits(n.properties.all[i].node, j.entries[i].value)
      [] n.kind = "Array" ->
           /\ j.t = "array"
           /\ Len(j.items) = Len(n.items)
           /\ \A i \in DOMAIN n.items : Emits(n.items[i], j.items[i])
      [] n.kind = "Null" -> j = JsonNull
      [] n.kind = "Bool" -> j = JsonBool(n.value)
      [] n.kind = "Number" -> j = JsonNumber(n.value)
      [] OTHER -> j = JsonString(n.value)

\* the strings of a JSON value: those that are values and those that are keys
RECURSIVE JsonStrings(_)
JsonStrings(j) ==
    CASE j.t = "object" ->
           UNION {{j.entries[i].key} \cup JsonStrings(j.entries[i].value) :
                     i \in DOMAIN j.entries}
      [] j.t = "array" -> UNION {JsonStrings(j.items[i]) : i \in DOMAIN j.items}
      [] j.t = "string" -> {j.v}
      [] OTHER -> {}

\* C24: the JSON serialization of a node gives, for an object, one map entry
\* for each element of all, in insertion order, under the unescaped value of
\* the key;
\* for an array, one element for each item, in order; for a scalar its value
\* and for Null the unit value; the annotations of a node are never in the
\* output.
C24_Serialization ==
    doc # NoDoc =>
        /\ Emits(doc, ser)
        /\ JsonStrings(ser) \cap {<<"t", "a", "g">>, <<"a", "n", "n", "o">>} = {}

(***************************************************************************)
(* Properties of the errors about characters.                              *)
(***************************************************************************)
CharMessages ==
    {"invalid character in string", "invalid control character in string",
     "invalid character in comment"}

\* the kinds of the tokens an error message is about
KindsOf(message) ==
    IF message = "invalid character in comment"
    THEN {"COMMENT_LINE", "COMMENT_BLOCK"}
    ELSE {"DOUBLE_QUOTE", "SINGLE_QUOTE", "BACKTICK_QUOTE"}

\* the characters that are illegal in a token of the kind: the C0 controls
\* other than \t and DEL, and not \n and \r where the token may span lines
Illegal(kind) ==
    IF kind \in {"BACKTICK_QUOTE", "COMMENT_BLOCK"} THEN {SOH, DEL}
    ELSE {SOH, DEL, "\n", "\r"}

\* the offset in bytes, in the source, of the k-th character of the i-th token
ByteOffset(i, k) ==
    ByteLenOf(Concat([j \in 1..(i - 1) |-> src[j].text]))
    + ByteLenOf(SubSeq(src[i].text, 1, k - 1))

\* the places of the offending characters of the tokens of the kinds
Offending(kinds) ==
    {<<i, k>> \in UNION {{i} \X (DOMAIN src[i].text) : i \in DOMAIN src} :
        src[i].kind \in kinds /\ src[i].text[k] \in Illegal(src[i].kind)}

CharErrors == {e \in DOMAIN errors : errors[e].message \in CharMessages}

\* C25: every error of the messages 'invalid character in string', 'invalid
\* control character in string' and 'invalid character in comment' has a
\* range of width zero at the offset in bytes, in the source, of an offending
\* character of a string or comment token, also when characters of more than
\* one byte precede it in the token; and a parsed input whose strings and
\* comments are all looked at has one such error for each offending character.
C25_CharErrorOffsets ==
    /\ \A e \in CharErrors :
          \E p \in Offending(KindsOf(errors[e].message)) :
              errors[e].range = TextRange(ByteOffset(p[1], p[2]), ByteOffset(p[1], p[2]))
    /\ \A z \in ControlSeeds :
          Parsed(z) =>
              Cardinality(CharErrors) = Cardinality(Offending(UNION {KindsOf(m) : m \in CharMessages}))

(***************************************************************************)
(* Properties of the lint command.                                         *)
(***************************************************************************)
Ran(stage) == \E i \in DOMAIN lint.stages : lint.stages[i] = stage

LintStages == <<"load", "parse", "validate", "associate", "schema">>

\* C26: lint_file runs its stages in a fixed order and stops at the first one
\* that fails: dom.validate runs only when the parse gave no syntax error,
\* the schema association and the schema validation run only when there was
\* no syntax error and validate succeeded, and lint_file returns Ok only
\* when no stage reported an error.
C26_LintFileStages ==
    /\ IsPrefix(lint.stages, LintStages)
    /\ Ran("validate") => lint.loaded /\ Ran("parse") /\ lint.syntax_errors = 0
    /\ (Ran("associate") \/ Ran("schema")) =>
          lint.syntax_errors = 0 /\ Ran("validate") /\ lint.valid = Ok
    /\ (lint.pc = "file_done" /\ lint.file_result # Ok) =>
          \/ ~lint.loaded /\ lint.stages = <<"load">>
          \/ lint.stages = <<"load", "parse">>
          \/ lint.valid = Err /\ lint.stages = <<"load", "parse", "validate">>
          \/ lint.schema \in {"Errors", "Failed"} /\ lint.stages = LintStages
    /\ (lint.pc = "file_done" /\ lint.file_result = Ok) =>
          /\ lint.loaded
          /\ lint.syntax_errors = 0
          /\ lint.valid = Ok
          /\ lint.schema \in {"NoAssociation", "Valid"}

\* a file went through every stage and lint_file returned Ok
C26_Witness ==
    /\ lint.pc = "file_done"
    /\ lint.file_result = Ok
    /\ lint.stages = LintStages
    /\ lint.schema = "Valid"

\* lint_file returned with syntax errors, after the parse
C26_WitnessSyntaxErrors ==
    /\ lint.pc = "file_done"
    /\ lint.file_result = "syntax errors found"
    /\ lint.syntax_errors = MaxSyntaxErrors

Failed == {i \in DOMAIN lint.outcomes : lint.outcomes[i] # Ok}

\* C27: lint_files lints every file of the command, in order, also after a
\* file failed, and returns an error exactly when at least one file failed:
\* a later file that passes does not reset the failure.
C27_LintFiles ==
    /\ lint.pc \notin {"idle", "returned"} =>
          /\ lint.file \in 1..lint.files
          /\ Len(lint.outcomes) = lint.file - 1
          /\ lint.result = Err <=> Failed # {}
    /\ lint.pc = "returned" =>
          /\ Len(lint.outcomes) = lint.files
          /\ lint.returned = Err <=> Failed # {}
          /\ lint.returned = Ok <=> Failed = {}

\* the first file failed, the last one passed and lint_files returned Err
C27_Witness ==
    /\ lint.pc = "returned"
    /\ lint.files = MaxFiles
    /\ lint.outcomes[1] = "syntax errors found"
    /\ lint.outcomes[MaxFiles] = Ok
    /\ lint.returned = Err

(***************************************************************************)
(* Properties of the builder's stack of open nodes.                        *)
(***************************************************************************)
\* the kinds of the nodes that are open, the outermost first
OpenNodes == [i \in DOMAIN builder.parents |-> builder.parents[i].kind]

\* the calls of parse_annos that are under way and have opened their node
OpenAnnosCalls ==
    {i \in DOMAIN stack : stack[i].fn = "parse_annos" /\ stack[i].pc # "start"}

\* C28: every start_node is matched by the finish_node of the same node on
\* every path through the parser, early returns on errors included: when
\* parse_root has returned ROOT is the only open node, and an ANNOS node is
\* open only while the call of parse_annos that opened it is under way, so it
\* is closed when parse_annos returns, also after an annotation entry failed.
C28_BuilderDiscipline ==
    /\ At("parse", "finish") => OpenNodes = <<"ROOT">>
    /\ status = "running" =>
          Cardinality({i \in DOMAIN OpenNodes : OpenNodes[i] = "ANNOS"})
              = Cardinality(OpenAnnosCalls)

(***************************************************************************)
(* Properties of integers that do not fit.                                 *)
(***************************************************************************)
\* the cells of Integer nodes whose value() was called
IntegerCells ==
    {i \in DOMAIN dom_nodes :
        dom_nodes[i].node.kind = "Integer" /\ dom_nodes[i].node.value # <<>>}

Overflows(n) == n.syntax # <<>> /\ ~Fits(n)

\* C29: integer overflow is silent: when the literal of an Integer node does
\* not fit its type (above u64::MAX for unsigned and '+' decimals and for
\* Bin, Oct and Hex, below i64::MIN for '-' decimals), value() is 0 in the
\* variant of the literal, Positive(0) or Negative(0), and the list of deferred
\* errors of the node stays empty, so validate succeeds; a node without syntax
\* decodes to Positive(0).
C29_SilentOverflow ==
    \A i \in IntegerCells :
        LET n == dom_nodes[i].node
        IN /\ n.syntax = <<>> => n.value[1] = IntegerValue("Positive", 0)
           /\ Overflows(n) =>
                 /\ n.value[1] =
                       IntegerValue(IF IsNegative(n) THEN "Negative" ELSE "Positive", 0)
                 /\ n.errors = <<>>
                 /\ dom_nodes[i].last = "validate" => dom_nodes[i].result.ok

\* -9223372036854775809 was decoded to Negative(0) and then validated
C29_Witness ==
    \E i \in IntegerCells :
        /\ dom_nodes[i].node.syntax = <<(<<"-">> \o DEC_2_63_1)>>
        /\ Overflows(dom_nodes[i].node)
        /\ dom_nodes[i].node.value[1] = IntegerValue("Negative", 0)
        /\ dom_nodes[i].last = "validate"
        /\ dom_nodes[i].result.ok

(***************************************************************************)
(* Properties of the deserialization of arrays and objects.                *)
(***************************************************************************)
\* the nodes of the elements that deserialize, in the order of the elements
KeptItems(seq) ==
    LET kept == SelectSeq(seq, LAMBDA j : deserialize(j).ok)
    IN [i \in DOMAIN kept |-> deserialize(kept[i]).node]

\* the entries that deserialize, in the order of the map, under property keys
KeptEntries(map) ==
    LET kept == SelectSeq(map, LAMBDA e : deserialize(e.value).ok)
    IN [i \in DOMAIN kept |->
           [key |-> Key(i, TRUE, kept[i].key, TRUE), node |-> deserialize(kept[i].value).node]]

\* C30: when a JSON array or object is deserialized into a Node, an element
\* or entry that fails to deserialize is skipped: the result is Ok, it holds
\* the elements that succeeded, those after a failing one too, in their
\* order, and the error list of the node is empty.
C30_FailingMembersSkipped ==
    /\ (json # NoJson /\ json.t = "array") =>
          /\ de.ok
          /\ de.node.kind = "Array"
          /\ de.node.errors = <<>>
          /\ de.node.items = KeptItems(json.items)
    /\ (json # NoJson /\ json.t = "object") =>
          /\ de.ok
          /\ de.node.kind = "Object"
          /\ de.node.errors = <<>>
          /\ de.node.properties.all = KeptEntries(json.entries)

\* [null, 1] was deserialized to an array of the one item 1
C30_Witness ==
    /\ json = JsonArray(<<JsonNull, JsonNumber(1)>>)
    /\ de.ok
    /\ Len(de.node.items) = 1
    /\ de.node.items[1].value = 1

\* {"a": null, "b": true} was deserialized to an object of the one entry b
C30_WitnessObject ==
    /\ json = JsonObject(<<[key |-> <<"a">>, value |-> JsonNull],
                           [key |-> <<"b">>, value |-> JsonBool(TRUE)]>>)
    /\ de.ok
    /\ Len(de.node.properties.all) = 1
    /\ de.node.properties.all[1].key.text = <<"b">>

====
